---- MODULE Spec2Model ----
(***************************************************************************)
(* Model of the playback engine of sona (src/src/audio.rs): the tempo map  *)
(* builder, the schedule compiler, the transport controller run by the     *)
(* control thread, the render callback run by the audio thread, and the    *)
(* position query API.                                                     *)
(*                                                                         *)
(* Times in seconds are f64 in the source.  The model keeps them exact: a  *)
(* time is an integer count of 1/(1000000 * ticks_per_beat) seconds, which *)
(* is the unit in which build_tempo_segments and ticks_to_seconds add up   *)
(* delta_ticks * us_per_beat.  Rounding to samples is done on that exact   *)
(* value (nearest integer, ties away from zero, as f64::round).            *)
(***************************************************************************)
EXTENDS Integers, Sequences, FiniteSets, TLC

\* ------------------------------------------------------------------ bounds

\* Most commands that wait in the command channel at once.
MaxQueue == 1
\* The render callback stops advancing the cursor at this many samples.
MaxSamples == 4
\* Largest value of a telemetry counter in the position-query specification.
MaxVal == 3
\* SpecBacklog: the commands that can wait in the channel.
MaxBacklog == 2
\* SpecCompile: the events of a source file, over its two tracks together.
MaxEvents == 3
\* SpecCompile: the delta time of a track event, in ticks.
MaxDelta == 1
\* SpecTempo: the tempo events of a list, and the largest tick of one.
MaxTempoEvents == 2
MaxTempoTick == 2

\* --------------------------------------------------------- program constants

MicrosPerSecond == 1000000
DefaultUsPerBeat == 500000
DefaultTicksPerBeat == 480
NumChannels == 16
NumKeys == 128
\* The sample rate the output device reports (config.sample_rate()).
SampleRate == 2

\* ------------------------------------------------------------------ helpers

Min(a, b) == IF a <= b THEN a ELSE b
Max(a, b) == IF a >= b THEN a ELSE b

\* u64::saturating_sub
SaturatingSub(a, b) == IF a >= b THEN a - b ELSE 0

\* Mutant of RoundDiv: the quotient is truncated.
RoundDiv_Truncates(n, d) == n \div d

\* f64::round of the non-negative quotient n / d: nearest integer, ties away
\* from zero.
RoundDiv(n, d) == (2 * n + d) \div (2 * d)

RECURSIVE Gcd(_, _)
Gcd(a, b) == IF b = 0 THEN a ELSE Gcd(b, a % b)

\* The fraction x * r / d as <<numerator, denominator>> with the factors
\* common to r and d, and to x and what is left of d, cancelled: products
\* like seconds * 48000 stay within the integers of the model checker, and
\* the value of the fraction is the same.
CancelSecond(x, r, d, h) == <<(x \div h) * r, d \div h>>
CancelFirst(x, r, d, g) == CancelSecond(x, r \div g, d \div g, Gcd(x, d \div g))
Fraction(x, r, d) == CancelFirst(x, r, d, Gcd(r, d))

\* Option<T>: None is <<>>, Some(v) is <<v>>.
None == <<>>
Some(v) == <<v>>

\* Mutant of InsertByKey: an element is inserted before the elements with
\* the same key, so the sort is not stable.
RECURSIVE InsertByKey_BeforeEqual(_, _, _)
InsertByKey_BeforeEqual(sorted, e, field) ==
    IF sorted = <<>> THEN <<e>>
    ELSE IF sorted[Len(sorted)][field] < e[field] THEN Append(sorted, e)
    ELSE Append(InsertByKey_BeforeEqual(SubSeq(sorted, 1, Len(sorted) - 1), e, field),
                sorted[Len(sorted)])

\* slice::sort_by_key is a stable sort: insertion of each element after the
\* elements whose key is not larger.
RECURSIVE InsertByKey(_, _, _)
InsertByKey(sorted, e, field) ==
    IF sorted = <<>> THEN <<e>>
    ELSE IF sorted[Len(sorted)][field] <= e[field] THEN Append(sorted, e)
    ELSE Append(InsertByKey(SubSeq(sorted, 1, Len(sorted) - 1), e, field),
                sorted[Len(sorted)])

RECURSIVE SortByKeyFrom(_, _, _, _)
SortByKeyFrom(s, i, acc, field) ==
    IF i > Len(s) THEN acc
    ELSE SortByKeyFrom(s, i + 1, InsertByKey(acc, s[i], field), field)

SortByKey(s, field) == SortByKeyFrom(s, 1, <<>>, field)

\* ------------------------------------------------------- tempo map builder

\* A TempoSegment is [tick, us_per_beat, seconds_at_tick]; a tempo event is
\* [tick, us_per_beat].
\* Lines 188-195: the segment a tempo event at a later tick opens.
NextSegment(current, ev) ==
    [tick |-> ev.tick, us_per_beat |-> ev.us_per_beat,
     seconds_at_tick |-> current.seconds_at_tick
                           + SaturatingSub(ev.tick, current.tick) * current.us_per_beat]

\* Mutant of TempoFold: a tempo event at the tick of the current segment
\* opens a segment of its own.
RECURSIVE TempoFold_AlwaysAppends(_, _, _)
TempoFold_AlwaysAppends(sorted, i, segments) ==
    IF i > Len(sorted) THEN segments
    ELSE TempoFold_AlwaysAppends(sorted, i + 1,
                   Append(segments, [tick |-> sorted[i].tick,
                                     us_per_beat |-> sorted[i].us_per_beat,
                                     seconds_at_tick |-> segments[Len(segments)].seconds_at_tick]))

\* Mutant of TempoFold: a tempo event at the tick of the current segment
\* is dropped.
RECURSIVE TempoFold_FirstWins(_, _, _)
TempoFold_FirstWins(sorted, i, segments) ==
    IF i > Len(sorted) THEN segments
    ELSE IF sorted[i].tick = segments[Len(segments)].tick
    THEN TempoFold_FirstWins(sorted, i + 1, segments)
    ELSE TempoFold_FirstWins(sorted, i + 1,
                   Append(segments, NextSegment(segments[Len(segments)], sorted[i])))

\* Lines 182-197: the loop; segments' last element is always current.
RECURSIVE TempoFold(_, _, _)
TempoFold(sorted, i, segments) ==
    IF i > Len(sorted) THEN segments
    ELSE IF sorted[i].tick = segments[Len(segments)].tick
    THEN TempoFold(sorted, i + 1,
                   [segments EXCEPT ![Len(segments)].us_per_beat = sorted[i].us_per_beat])
    ELSE TempoFold(sorted, i + 1,
                   Append(segments, NextSegment(segments[Len(segments)], sorted[i])))

\* Mutant of build_tempo_segments: the tempo events are ignored.
build_tempo_segments_DefaultOnly(tempo_events) ==
    <<[tick |-> 0, us_per_beat |-> DefaultUsPerBeat, seconds_at_tick |-> 0]>>

build_tempo_segments(tempo_events) ==
    TempoFold(SortByKey(tempo_events, "tick"), 1,
              <<[tick |-> 0, us_per_beat |-> DefaultUsPerBeat, seconds_at_tick |-> 0]>>)

RECURSIVE ActiveSegment(_, _, _, _)
ActiveSegment(segments, i, tick, active) ==
    IF i > Len(segments) \/ segments[i].tick > tick THEN active
    ELSE ActiveSegment(segments, i + 1, tick, segments[i])

\* Lines 210-213, with the active segment found.
SecondsIn(active, tick) ==
    active.seconds_at_tick + SaturatingSub(tick, active.tick) * active.us_per_beat

ticks_to_seconds(tick, segments) ==
    SecondsIn(ActiveSegment(segments, 2, tick, segments[1]), tick)

\* (seconds * sample_rate as f64).round() as u64
RoundFraction(q) == RoundDiv(q[1], q[2])

SecondsToSample(seconds, ticks_per_beat, sample_rate) ==
    RoundFraction(Fraction(seconds, sample_rate, MicrosPerSecond * ticks_per_beat))

\* ----------------------------------------------------------- MIDI parsing

\* A track event is [delta, kind, channel, key, vel, us]: kind is the midly
\* message ("NoteOff", "NoteOn", "Aftertouch", "Controller", "ProgramChange",
\* "ChannelAftertouch", "PitchBend"), or "Tempo" (us = microseconds per
\* beat), or another meta event ("TrackName").  key also holds a controller
\* or program number, vel a controller value or a bend.
MidiKinds == {"NoteOff", "NoteOn", "Aftertouch", "Controller", "ProgramChange",
              "ChannelAftertouch", "PitchBend"}

\* The oxisynth MidiEvent [type, channel, key, value] of a midly message.
midi_message_to_event(channel, m) ==
    CASE m.kind = "NoteOff" ->
           [type |-> "NoteOff", channel |-> channel, key |-> m.key, value |-> 0]
      [] m.kind = "NoteOn" ->
           [type |-> "NoteOn", channel |-> channel, key |-> m.key, value |-> m.vel]
      [] m.kind = "Aftertouch" ->
           [type |-> "PolyphonicKeyPressure", channel |-> channel, key |-> m.key,
            value |-> m.vel]
      [] m.kind = "Controller" ->
           [type |-> "ControlChange", channel |-> channel, key |-> m.key,
            value |-> m.vel]
      [] m.kind = "ProgramChange" ->
           [type |-> "ProgramChange", channel |-> channel, key |-> m.key, value |-> 0]
      [] m.kind = "ChannelAftertouch" ->
           [type |-> "ChannelPressure", channel |-> channel, key |-> 0,
            value |-> m.vel]
      [] m.kind = "PitchBend" ->
           [type |-> "PitchBend", channel |-> channel, key |-> 0, value |-> m.vel]

\* The running state of parse_smf inside one track is [current_tick,
\* last_tick, active_notes, all_events, tempo_events, max_tick,
\* max_note_tick]; active_notes keeps, per key, how many notes are open (the
\* source keeps their start ticks and uses only push, pop and is_empty).

\* Mutant of AdvanceTick: max_tick is not raised.
AdvanceTick_KeepsMaxTick(st, event) ==
    [st EXCEPT !.current_tick = st.current_tick + event.delta,
               !.last_tick = st.current_tick + event.delta]

\* Lines 270-272.
AdvanceTick(st, event) ==
    [st EXCEPT !.current_tick = st.current_tick + event.delta,
               !.last_tick = st.current_tick + event.delta,
               !.max_tick = Max(st.max_tick, st.current_tick + event.delta)]

\* if active_notes[idx].pop().is_some() { max_note_tick = max(..) }
CloseNote(st, idx) ==
    IF st.active_notes[idx] > 0
    THEN [st EXCEPT !.active_notes[idx] = st.active_notes[idx] - 1,
                    !.max_note_tick = Max(st.max_note_tick, st.current_tick)]
    ELSE st

\* active_notes[idx].push(current_tick); max_note_tick = max(..)
OpenNote(st, idx) ==
    [st EXCEPT !.active_notes[idx] = st.active_notes[idx] + 1,
               !.max_note_tick = Max(st.max_note_tick, st.current_tick)]

\* Lines 276-293: the match on the message.
TrackNotes(st, event) ==
    CASE event.kind = "NoteOff" -> CloseNote(st, event.key)
      [] event.kind = "NoteOn" ->
           IF event.vel > 0 THEN OpenNote(st, event.key) ELSE CloseNote(st, event.key)
      [] OTHER -> st

\* Line 294.
PushEvent(st, event) ==
    [st EXCEPT !.all_events =
        Append(st.all_events,
               [tick |-> st.current_tick,
                event |-> midi_message_to_event(event.channel, event)])]

\* Mutant of PushTempo: the tempo event is collected with its delta.
PushTempo_DeltaTick(st, event) ==
    [st EXCEPT !.tempo_events =
        Append(st.tempo_events, [tick |-> event.delta, us_per_beat |-> event.us])]

\* Lines 296-298.
PushTempo(st, event) ==
    [st EXCEPT !.tempo_events =
        Append(st.tempo_events, [tick |-> st.current_tick, us_per_beat |-> event.us])]

\* Lines 273-300: the match on the event kind, the tick already advanced.
MatchEvent(st, event) ==
    IF event.kind \in MidiKinds THEN PushEvent(TrackNotes(st, event), event)
    ELSE IF event.kind = "Tempo" THEN PushTempo(st, event)
    ELSE st

\* The body of the loop over one track's events.
ParseEvent(st, event) == MatchEvent(AdvanceTick(st, event), event)

RECURSIVE ParseTrackFrom(_, _, _)
ParseTrackFrom(track, i, st) ==
    IF i > Len(track) THEN st
    ELSE ParseTrackFrom(track, i + 1, ParseEvent(st, track[i]))

\* Lines 266-268: the per-track locals.
StartTrack(acc) ==
    [current_tick |-> 0, last_tick |-> 0,
     active_notes |-> [k \in 0..(NumKeys - 1) |-> 0],
     all_events |-> acc.all_events,
     tempo_events |-> acc.tempo_events,
     max_tick |-> acc.max_tick,
     max_note_tick |-> acc.max_note_tick]

\* Lines 302-304: a note still open at the end of the track closes at the
\* track's last tick.
EndTrack(st) ==
    [all_events |-> st.all_events,
     tempo_events |-> st.tempo_events,
     max_tick |-> st.max_tick,
     max_note_tick |->
        IF \E k \in 0..(NumKeys - 1) : st.active_notes[k] > 0
        THEN Max(st.max_note_tick, st.last_tick)
        ELSE st.max_note_tick]

\* One iteration of parse_smf's loop over the tracks.
ParseTrack(acc, track) == EndTrack(ParseTrackFrom(track, 1, StartTrack(acc)))

RECURSIVE ParseTracksFrom(_, _, _)
ParseTracksFrom(tracks, i, acc) ==
    IF i > Len(tracks) THEN acc
    ELSE ParseTracksFrom(tracks, i + 1, ParseTrack(acc, tracks[i]))

\* Mutant of SortedParsed: all_events is left in the order of the tracks.
SortedParsed_Unsorted(acc) ==
    [events |-> acc.all_events,
     tempo_events |-> acc.tempo_events,
     max_tick |-> acc.max_tick,
     max_note_tick |-> acc.max_note_tick]

\* Lines 307-314: ParsedMidi [events, tempo_events, max_tick, max_note_tick]
SortedParsed(acc) ==
    [events |-> SortByKey(acc.all_events, "tick"),
     tempo_events |-> acc.tempo_events,
     max_tick |-> acc.max_tick,
     max_note_tick |-> acc.max_note_tick]

parse_smf(smf) ==
    SortedParsed(ParseTracksFrom(smf.tracks, 1,
                     [all_events |-> <<>>, tempo_events |-> <<>>,
                      max_tick |-> 0, max_note_tick |-> 0]))

\* ------------------------------------------------------- schedule compiler

\* smf.header.timing: [metrical, ticks]; a non-metrical timing counts as 480
\* ticks per beat, and the result is at least 1.
TicksPerBeat(smf) ==
    Max(IF smf.timing.metrical THEN smf.timing.ticks ELSE DefaultTicksPerBeat, 1)

\* Lines 326-335: a MidiPlaybackEvent [tick, sample, event] per parsed event.
Playback(events, tempo_segments, ticks_per_beat, sample_rate) ==
    [i \in 1..Len(events) |->
        [tick |-> events[i].tick,
         sample |-> SecondsToSample(ticks_to_seconds(events[i].tick, tempo_segments),
                                    ticks_per_beat, sample_rate),
         event |-> events[i].event]]

\* Lines 338-342.
RulerMaxTick(parsed) ==
    IF parsed.max_note_tick > 0 THEN parsed.max_note_tick ELSE parsed.max_tick

\* Lines 326-350: PlaybackSchedule [events, ruler_max_tick, total_samples]
Compile(parsed, tempo_segments, ticks_per_beat, sample_rate) ==
    [events |-> SortByKey(Playback(parsed.events, tempo_segments, ticks_per_beat,
                                   sample_rate), "sample"),
     ruler_max_tick |-> RulerMaxTick(parsed),
     total_samples |-> SecondsToSample(ticks_to_seconds(RulerMaxTick(parsed), tempo_segments),
                                       ticks_per_beat, sample_rate)]

CompileParsed(parsed, ticks_per_beat, sample_rate) ==
    Compile(parsed, build_tempo_segments(parsed.tempo_events), ticks_per_beat, sample_rate)

build_playback_schedule_from_smf(smf, sample_rate) ==
    CompileParsed(parse_smf(smf), TicksPerBeat(smf), sample_rate)

\* ------------------------------------------------------------ file system

\* The files the commands can name.  A MIDI file is unreadable or
\* unparseable (ok = FALSE) or decodes to an Smf; a soundfont loads or not.
TrackEv(delta, kind, channel, key, vel, us) ==
    [delta |-> delta, kind |-> kind, channel |-> channel, key |-> key, vel |-> vel,
     us |-> us]

MidiPaths == {"a.mid", "e.mid", "bad.mid"}
SoundfontPaths == {"x.sf2", "y.sf2"}

\* a.mid: a note on channel 15 from tick 1 to tick 2 and a program change
\* after it, one tick per sample at the model's sample rate.  e.mid: only a track name.
\* n.mid: a note from tick 0 to tick 1 and a program change at tick 2.
\* g.mid: a note from tick 0 to tick 3.
MidiFile(path) ==
    CASE path = "a.mid" ->
           [ok |-> TRUE,
            smf |-> [timing |-> [metrical |-> TRUE, ticks |-> 1],
                     tracks |-> << << TrackEv(1, "NoteOn", 15, 60, 100, 0),
                                      TrackEv(1, "NoteOff", 15, 60, 0, 0),
                                      TrackEv(1, "ProgramChange", 0, 5, 0, 0) >> >>]]
      [] path = "n.mid" ->
           [ok |-> TRUE,
            smf |-> [timing |-> [metrical |-> TRUE, ticks |-> 1],
                     tracks |-> << << TrackEv(0, "NoteOn", 0, 60, 100, 0),
                                      TrackEv(1, "NoteOff", 0, 60, 0, 0),
                                      TrackEv(1, "ProgramChange", 0, 7, 0, 0) >> >>]]
      [] path = "g.mid" ->
           [ok |-> TRUE,
            smf |-> [timing |-> [metrical |-> TRUE, ticks |-> 1],
                     tracks |-> << << TrackEv(0, "NoteOn", 0, 60, 100, 0),
                                      TrackEv(3, "NoteOff", 0, 60, 0, 0) >> >>]]
      [] path = "e.mid" ->
           [ok |-> TRUE,
            smf |-> [timing |-> [metrical |-> TRUE, ticks |-> 1],
                     tracks |-> << << TrackEv(0, "TrackName", 0, 0, 0, 0) >> >>]]
      [] OTHER -> [ok |-> FALSE]

SoundfontLoads(path) == path = "x.sf2"

\* Result<PlaybackSchedule, ()>: Err is None.  std::fs::read or Smf::parse
\* fails, or the Smf is compiled.
ParsedFile(file, sample_rate) ==
    IF file.ok THEN Some(build_playback_schedule_from_smf(file.smf, sample_rate))
    ELSE None

build_playback_schedule(midi_path, sample_rate) ==
    ParsedFile(MidiFile(midi_path), sample_rate)

\* What build_playback_schedule returns for each file of the model at the
\* stream's sample rate, computed once.
FileSchedules ==
    [midi_path \in MidiPaths \cup {"n.mid", "g.mid"} |->
        build_playback_schedule(midi_path, SampleRate)]


\* ------------------------------------------------------ synthesis engine

\* What the model keeps of an oxisynth Synth: the loaded soundfont, the
\* notes that sound (<<channel, key>>) and the program of channel 0.
\* Synth::default() followed by set_sample_rate:
SynthDefault == [font |-> None, notes |-> {}, program |-> 0]

\* synth.send_event(ev)
SynthSend(s, ev) ==
    CASE ev.type = "NoteOn" /\ ev.value > 0 ->
           [s EXCEPT !.notes = s.notes \cup {<<ev.channel, ev.key>>}]
      [] ev.type = "NoteOn" /\ ev.value = 0 ->
           [s EXCEPT !.notes = s.notes \ {<<ev.channel, ev.key>>}]
      [] ev.type = "NoteOff" ->
           [s EXCEPT !.notes = s.notes \ {<<ev.channel, ev.key>>}]
      [] ev.type = "ControlChange" /\ ev.key \in {120, 123} ->
           [s EXCEPT !.notes = {n \in s.notes : n[1] # ev.channel}]
      [] ev.type = "ProgramChange" /\ ev.channel = 0 ->
           [s EXCEPT !.program = ev.key]
      [] OTHER -> s

SynthEvent(type, channel, key, value) ==
    [type |-> type, channel |-> channel, key |-> key, value |-> value]

\* send_all_notes_off: for each channel 0..15 it sends controller 64 = 0,
\* controllers 120, 123 and 121, and a NoteOff for each key 0..127.  What is
\* left of the sounding notes after the whole burst: a note survives only if
\* neither a controller 120/123 of its channel nor a NoteOff of its channel
\* and key was sent.
BurstChannels == 0..(NumChannels - 1)
BurstKeys == 0..(NumKeys - 1)

BurstSilences(s, n) ==
    \E channel \in BurstChannels :
        \/ n \notin SynthSend(s, SynthEvent("ControlChange", channel, 120, 0)).notes
        \/ n \notin SynthSend(s, SynthEvent("ControlChange", channel, 123, 0)).notes
        \/ \E key \in BurstKeys : n = <<channel, key>>

send_all_notes_off(s) ==
    [s EXCEPT !.notes = {n \in s.notes : ~BurstSilences(s, n)}]

\* hard_reset_synth: a new engine, with the remembered soundfont reloaded
\* when its file still loads.
hard_reset_synth(soundfont_path) ==
    IF soundfont_path # None /\ SoundfontLoads(soundfont_path[1])
    THEN [SynthDefault EXCEPT !.font = soundfont_path]
    ELSE SynthDefault

\* ------------------------------------------------------ position query API

\* Mutant of InterpolatedTick: the cursor is taken one sample ahead.
InterpolatedTick_OneAhead(t) ==
    IF t.next_sample > t.last_sample /\ t.next_tick >= t.last_tick
    THEN LET denom == t.next_sample - t.last_sample
             num == Min(SaturatingSub(t.samples + 1, t.last_sample), denom)
         IN t.last_tick + RoundDiv(num * (t.next_tick - t.last_tick), denom)
    ELSE t.last_tick

\* The telemetry snapshot the queries load, field by field.
InterpolatedTick(t) ==
    IF t.next_sample > t.last_sample /\ t.next_tick >= t.last_tick
    THEN LET denom == t.next_sample - t.last_sample
             num == Min(SaturatingSub(t.samples, t.last_sample), denom)
         IN t.last_tick + RoundDiv(num * (t.next_tick - t.last_tick), denom)
    ELSE t.last_tick

\* Mutant of current_tick: the final .min(max_tick) is missing.
current_tick_Unclamped(t) ==
    IF t.max_tick = 0 THEN None
    ELSE Some(InterpolatedTick(t))

\* Option<u64>
current_tick(t) ==
    IF t.max_tick = 0 THEN None
    ELSE Some(Min(InterpolatedTick(t), t.max_tick))

\* Option<f32>: the ratio is kept as the fraction <<numerator, denominator>>.
current_tick_ratio(t) ==
    IF t.max_tick = 0 THEN None
    ELSE Some(<<Min(InterpolatedTick(t), t.max_tick), t.max_tick>>)

\* ------------------------------------------------------------------- state

VARIABLES
    cmd_rx,               \* the command channel: commands sent, not yet received
    pc,                   \* control thread: the statement it is at
    cmd,                  \* control thread: the command being processed
    soundfont_changed,    \* control thread: locals of the Play arm
    should_reload,
    should_start,
    schedule,             \* control thread: the schedule build_playback_schedule returned
    last_midi_path,       \* Option<PathBuf>
    last_soundfont_path,  \* Option<PathBuf>
    synth,                \* Mutex<Synth>
    playback_events,      \* Mutex<Vec<MidiPlaybackEvent>>
    playback_index,       \* Mutex<usize>
    is_playing,           \* Mutex<bool>
    locks,                \* who holds each of the four mutexes
    cb_pc,                \* render callback: the statement it is at
    samples_played,       \* the AtomicU64 counters
    total_samples,
    max_tick,
    last_event_sample,
    last_event_tick,
    next_event_sample,
    next_event_tick,
    h_prev_midi,          \* history: last_midi_path when the current command was received
    data,                 \* render callback: what the last frame of the buffer was filled with
    h_dispatched,         \* history: the schedule positions dispatched since the index was last reset
    h_watch,              \* observer: whether the three histories below are recorded
    h_last,               \* observer: the command processed last
    h_quiet,              \* observer: commands received since the render callback last ran (at most 2)
    h_at_recv,            \* observer: what was observable when the current command was received
    fn_in,                \* position-query specification: the counters read
    fn_out,               \* position-query specification: the values returned
    playback_status       \* UI thread: PlaybackStatus.state, written by handle_input

ctl_locals == <<cmd, soundfont_changed, should_reload, should_start, schedule, h_prev_midi>>
paths == <<last_midi_path, last_soundfont_path>>
shared == <<synth, playback_events, playback_index, is_playing>>
telemetry == <<samples_played, total_samples, max_tick, last_event_sample,
               last_event_tick, next_event_sample, next_event_tick>>
\* What no step of the engine writes.
fn_vars == <<fn_in, fn_out, playback_status>>
observer == <<h_watch, h_last, h_quiet, h_at_recv>>
vars == <<cmd_rx, pc, ctl_locals, paths, shared, locks, cb_pc, telemetry, fn_vars,
          data, h_dispatched, observer>>

Mutexes == {"synth", "playback_events", "playback_index", "is_playing"}

Command(type, midi, sf) == [type |-> type, midi |-> midi, sf |-> sf]
NoCommand == Command("None", "", "")
Commands ==
    {Command("Play", m, s) : m \in MidiPaths, s \in SoundfontPaths}
        \cup {Command("Pause", "", ""), Command("Stop", "", ""), Command("Rewind", "", "")}

NoSchedule == [events |-> <<>>, ruler_max_tick |-> 0, total_samples |-> 0]

\* What AudioState's loads see.
Telemetry ==
    [samples |-> samples_played, last_sample |-> last_event_sample,
     last_tick |-> last_event_tick, next_sample |-> next_event_sample,
     next_tick |-> next_event_tick, max_tick |-> max_tick]

\* What a user of the engine can observe of the transport: the play flag, the
\* cursor, the dispatch index, the installed schedule and the telemetry.
Observed ==
    [is_playing |-> is_playing, samples_played |-> samples_played,
     playback_index |-> playback_index, playback_events |-> playback_events,
     total_samples |-> total_samples, max_tick |-> max_tick,
     last_event_sample |-> last_event_sample, last_event_tick |-> last_event_tick,
     next_event_sample |-> next_event_sample, next_event_tick |-> next_event_tick]

NoQuery == [samples |-> 0, last_sample |-> 0, last_tick |-> 0, next_sample |-> 0,
            next_tick |-> 0, max_tick |-> 0]

\* AudioPlugin::build and the start of audio_thread.
InitEngine ==
    /\ cmd_rx = <<>>
    /\ pc = "recv"
    /\ cmd = NoCommand
    /\ soundfont_changed = FALSE
    /\ should_reload = FALSE
    /\ should_start = FALSE
    /\ schedule = NoSchedule
    /\ last_midi_path = None
    /\ last_soundfont_path = None
    /\ synth = SynthDefault
    /\ playback_events = <<>>
    /\ playback_index = 0
    /\ is_playing = FALSE
    /\ locks = [m \in Mutexes |-> "free"]
    /\ cb_pc = "idle"
    /\ samples_played = 0
    /\ total_samples = 0
    /\ max_tick = 0
    /\ last_event_sample = 0
    /\ last_event_tick = 0
    /\ next_event_sample = 0
    /\ next_event_tick = 0
    /\ h_prev_midi = None
    /\ data = "unwritten"
    /\ h_dispatched = <<>>
    /\ h_last = NoCommand
    /\ h_quiet = 0
    /\ h_at_recv = None
    /\ playback_status = "Stopped"

Init ==
    /\ InitEngine
    /\ h_watch = FALSE
    /\ fn_in = NoQuery
    /\ fn_out = None


\* --------------------------------------------------------------- UI thread

\* input.rs: audio_tx.0.send(command).  The channel is unbounded; the model
\* lets at most MaxQueue commands wait.
Send(c) ==
    /\ Len(cmd_rx) < MaxQueue
    /\ cmd_rx' = Append(cmd_rx, c)
    /\ UNCHANGED <<pc, ctl_locals, paths, shared, locks, cb_pc, telemetry, fn_vars,
                   data, h_dispatched, observer>>

\* The same send by a user who waits for the control thread to be idle
\* before the next command.
SendNext(c) ==
    /\ pc = "recv"
    /\ cmd_rx = <<>>
    /\ cmd_rx' = <<c>>
    /\ UNCHANGED <<pc, ctl_locals, paths, shared, locks, cb_pc, telemetry, fn_vars,
                   data, h_dispatched, observer>>

\* The same send by a user who lets up to MaxBacklog commands wait.
SendBacklog(c) ==
    /\ Len(cmd_rx) < MaxBacklog
    /\ cmd_rx' = Append(cmd_rx, c)
    /\ UNCHANGED <<pc, ctl_locals, paths, shared, locks, cb_pc, telemetry, fn_vars,
                   data, h_dispatched, observer>>

\* The commands of the backlog specification: a Play that loads, one that
\* does not, and the three others.
BacklogCommands ==
    {Command("Play", "a.mid", "x.sf2"), Command("Play", "bad.mid", "x.sf2"),
     Command("Pause", "", ""), Command("Stop", "", ""), Command("Rewind", "", "")}

\* ---------------------------------------------------------- control thread

\* mutex.lock(): the control thread waits until the mutex is free.
CtlLock(at, m, to) ==
    /\ pc = at
    /\ locks[m] = "free"
    /\ locks' = [locks EXCEPT ![m] = "ctl"]
    /\ pc' = to
    /\ UNCHANGED <<cmd_rx, ctl_locals, paths, shared, cb_pc, telemetry, fn_vars,
                   data, h_dispatched, observer>>

CtlUnlock(m) == locks' = [locks EXCEPT ![m] = "free"]

\* The end of a match arm: back to cmd_rx.recv(), the arm's locals dropped.
EndCommand ==
    /\ pc' = "recv"
    /\ cmd' = NoCommand
    /\ soundfont_changed' = FALSE
    /\ should_reload' = FALSE
    /\ should_start' = FALSE
    /\ schedule' = NoSchedule
    /\ h_prev_midi' = None
    /\ h_last' = IF h_watch THEN cmd ELSE NoCommand
    /\ h_at_recv' = None
    /\ UNCHANGED <<h_watch, h_quiet>>

\* Mutant of Recv: the command sent last is taken first.
Recv_TakesLast ==
    /\ pc = "recv"
    /\ cmd_rx # <<>>
    /\ cmd' = cmd_rx[Len(cmd_rx)]
    /\ cmd_rx' = SubSeq(cmd_rx, 1, Len(cmd_rx) - 1)
    /\ h_prev_midi' = last_midi_path
    /\ pc' = CASE cmd'.type = "Play" -> "play_check"
               [] cmd'.type = "Pause" -> "pause_stop"
               [] cmd'.type = "Stop" -> "stop_stop"
               [] cmd'.type = "Rewind" -> "rewind_store"
    /\ h_at_recv' = IF h_watch THEN Some(Observed) ELSE None
    /\ h_quiet' = IF h_watch THEN Min(h_quiet + 1, 2) ELSE 0
    /\ UNCHANGED <<soundfont_changed, should_reload, should_start, schedule,
                   paths, shared, locks, cb_pc, telemetry, fn_vars,
                   data, h_dispatched, h_watch, h_last>>

\* cmd_rx.recv() and the match on the command.
Recv ==
    /\ pc = "recv"
    /\ cmd_rx # <<>>
    /\ cmd' = Head(cmd_rx)
    /\ cmd_rx' = Tail(cmd_rx)
    /\ h_prev_midi' = last_midi_path
    /\ pc' = CASE Head(cmd_rx).type = "Play" -> "play_check"
               [] Head(cmd_rx).type = "Pause" -> "pause_stop"
               [] Head(cmd_rx).type = "Stop" -> "stop_stop"
               [] Head(cmd_rx).type = "Rewind" -> "rewind_store"
    /\ h_at_recv' = IF h_watch THEN Some(Observed) ELSE None
    /\ h_quiet' = IF h_watch THEN Min(h_quiet + 1, 2) ELSE 0
    /\ UNCHANGED <<soundfont_changed, should_reload, should_start, schedule,
                   paths, shared, locks, cb_pc, telemetry, fn_vars,
                   data, h_dispatched, h_watch, h_last>>

\* Play, lines 466-470.  The || short-circuits: playback_events is locked
\* only when both paths are the remembered ones.
SoundfontChanged == last_soundfont_path # Some(cmd.sf)

\* Mutant of PathsChanged: the MIDI path is not compared.
PathsChanged_SoundfontOnly == SoundfontChanged

PathsChanged == last_midi_path # Some(cmd.midi) \/ SoundfontChanged

PlayCheck ==
    /\ pc = "play_check"
    /\ soundfont_changed' = SoundfontChanged
    /\ IF PathsChanged
       THEN /\ should_reload' = TRUE
            /\ should_start' = FALSE
            /\ pc' = "play_stop"
            /\ UNCHANGED locks
       ELSE /\ locks["playback_events"] = "free"
            /\ locks' = [locks EXCEPT !["playback_events"] = "ctl"]
            /\ pc' = "play_check_held"
            /\ UNCHANGED <<should_reload, should_start>>
    /\ UNCHANGED <<cmd_rx, cmd, schedule, h_prev_midi, paths, shared, cb_pc,
                   telemetry, fn_vars,
                   data, h_dispatched, observer>>

PlayCheckEmpty ==
    /\ pc = "play_check_held"
    /\ should_reload' = (playback_events = <<>>)
    /\ should_start' = ~should_reload'
    /\ CtlUnlock("playback_events")
    /\ pc' = IF should_reload' THEN "play_stop" ELSE "play_start"
    /\ UNCHANGED <<cmd_rx, cmd, soundfont_changed, schedule, h_prev_midi, paths,
                   shared, cb_pc, telemetry, fn_vars,
                   data, h_dispatched, observer>>

\* Line 473: *is_playing.lock().unwrap() = false
PlayStopLock == CtlLock("play_stop", "is_playing", "play_stop_held")

\* Mutant of PlayStop: the reload does not clear the play flag.
PlayStop_KeepsPlaying ==
    /\ pc = "play_stop_held"
    /\ is_playing' = is_playing
    /\ CtlUnlock("is_playing")
    /\ pc' = "play_burst"
    /\ UNCHANGED <<cmd_rx, ctl_locals, paths, synth, playback_events, playback_index,
                   cb_pc, telemetry, fn_vars,
                   data, h_dispatched, observer>>

PlayStop ==
    /\ pc = "play_stop_held"
    /\ is_playing' = FALSE
    /\ CtlUnlock("is_playing")
    /\ pc' = "play_burst"
    /\ UNCHANGED <<cmd_rx, ctl_locals, paths, synth, playback_events, playback_index,
                   cb_pc, telemetry, fn_vars,
                   data, h_dispatched, observer>>

\* Line 474: send_all_notes_off(&mut synth.lock().unwrap())
PlayBurstLock == CtlLock("play_burst", "synth", "play_burst_held")

PlayBurst ==
    /\ pc = "play_burst_held"
    /\ synth' = send_all_notes_off(synth)
    /\ CtlUnlock("synth")
    /\ pc' = IF soundfont_changed THEN "play_font" ELSE "play_build"
    /\ UNCHANGED <<cmd_rx, ctl_locals, paths, playback_events, playback_index,
                   is_playing, cb_pc, telemetry, fn_vars,
                   data, h_dispatched, observer>>

\* Lines 476-484: the soundfont is opened and loaded, and only then is the
\* synth locked to add it; a soundfont that does not load is skipped.
PlayFont ==
    /\ pc = "play_font"
    /\ IF SoundfontLoads(cmd.sf)
       THEN /\ locks["synth"] = "free"
            /\ locks' = [locks EXCEPT !["synth"] = "ctl"]
            /\ pc' = "play_font_held"
       ELSE /\ pc' = "play_build"
            /\ UNCHANGED locks
    /\ UNCHANGED <<cmd_rx, ctl_locals, paths, shared, cb_pc, telemetry, fn_vars,
                   data, h_dispatched, observer>>

PlayAddFont ==
    /\ pc = "play_font_held"
    /\ synth' = [synth EXCEPT !.font = Some(cmd.sf)]
    /\ CtlUnlock("synth")
    /\ pc' = "play_build"
    /\ UNCHANGED <<cmd_rx, ctl_locals, paths, playback_events, playback_index,
                   is_playing, cb_pc, telemetry, fn_vars,
                   data, h_dispatched, observer>>

\* Line 486: if let Ok(schedule) = build_playback_schedule(..); on Err the
\* arm goes on to line 510 with should_start still false.
\* Mutant of PlayBuildResult: a failed build falls back to an empty schedule
\* (unwrap_or_default) instead of skipping the install.
PlayBuildResult_DefaultOnErr(built) ==
    /\ schedule' = IF built # None THEN built[1] ELSE NoSchedule
    /\ pc' = "play_install"

PlayBuildResult(built) ==
    IF built # None
    THEN /\ schedule' = built[1]
         /\ pc' = "play_install"
    ELSE /\ schedule' = schedule
         /\ pc' = "play_start"

PlayBuild ==
    /\ pc = "play_build"
    /\ PlayBuildResult(FileSchedules[cmd.midi])
    /\ UNCHANGED <<cmd_rx, cmd, soundfont_changed, should_reload, should_start,
                   h_prev_midi, paths, shared, locks, cb_pc, telemetry, fn_vars,
                   data, h_dispatched, observer>>

\* Line 491: *playback_events.lock().unwrap() = schedule.events
PlayInstallLock == CtlLock("play_install", "playback_events", "play_install_held")

\* Mutant of PlayInstall: the new events are appended to the installed ones.
PlayInstall_Appends ==
    /\ pc = "play_install_held"
    /\ playback_events' = playback_events \o schedule.events
    /\ CtlUnlock("playback_events")
    /\ pc' = "play_publish"
    /\ UNCHANGED <<cmd_rx, ctl_locals, paths, synth, playback_index, is_playing,
                   cb_pc, telemetry, fn_vars,
                   data, h_dispatched, observer>>

PlayInstall ==
    /\ pc = "play_install_held"
    /\ playback_events' = schedule.events
    /\ CtlUnlock("playback_events")
    /\ pc' = "play_publish"
    /\ UNCHANGED <<cmd_rx, ctl_locals, paths, synth, playback_index, is_playing,
                   cb_pc, telemetry, fn_vars,
                   data, h_dispatched, observer>>

\* Lines 492-503: the relaxed stores to the counters.  No lock is taken and
\* no other thread writes the counters while is_playing is false.
PlayPublish ==
    /\ pc = "play_publish"
    /\ samples_played' = 0
    /\ total_samples' = schedule.total_samples
    /\ max_tick' = schedule.ruler_max_tick
    /\ last_event_sample' = 0
    /\ last_event_tick' = 0
    /\ IF schedule.events # <<>>
       THEN /\ next_event_sample' = schedule.events[1].sample
            /\ next_event_tick' = schedule.events[1].tick
       ELSE /\ next_event_sample' = schedule.total_samples
            /\ next_event_tick' = schedule.ruler_max_tick
    /\ pc' = "play_index"
    /\ UNCHANGED <<cmd_rx, ctl_locals, paths, shared, locks, cb_pc, fn_vars,
                   data, h_dispatched, observer>>

\* Lines 504-507: *playback_index.lock().unwrap() = 0, then the paths are
\* remembered and should_start is set.
PlayIndexLock == CtlLock("play_index", "playback_index", "play_index_held")

\* Mutant of PlayIndex: the reload leaves the dispatch index where it was.
PlayIndex_KeepsIndex ==
    /\ pc = "play_index_held"
    /\ playback_index' = playback_index
    /\ h_dispatched' = h_dispatched
    /\ CtlUnlock("playback_index")
    /\ last_midi_path' = Some(cmd.midi)
    /\ last_soundfont_path' = Some(cmd.sf)
    /\ should_start' = TRUE
    /\ pc' = "play_start"
    /\ UNCHANGED <<cmd_rx, cmd, soundfont_changed, should_reload, schedule, h_prev_midi,
                   synth, playback_events, is_playing, cb_pc, telemetry, fn_vars,
                   data, observer>>

PlayIndex ==
    /\ pc = "play_index_held"
    /\ playback_index' = 0
    /\ h_dispatched' = <<>>
    /\ CtlUnlock("playback_index")
    /\ last_midi_path' = Some(cmd.midi)
    /\ last_soundfont_path' = Some(cmd.sf)
    /\ should_start' = TRUE
    /\ pc' = "play_start"
    /\ UNCHANGED <<cmd_rx, cmd, soundfont_changed, should_reload, schedule, h_prev_midi,
                   synth, playback_events, is_playing, cb_pc, telemetry, fn_vars,
                   data, observer>>

\* Lines 510-513: if should_start { *is_playing.lock().unwrap() = true }
PlayStartLock ==
    /\ should_start
    /\ CtlLock("play_start", "is_playing", "play_start_held")

PlayNoStart ==
    /\ pc = "play_start"
    /\ ~should_start
    /\ EndCommand
    /\ UNCHANGED <<cmd_rx, paths, shared, locks, cb_pc, telemetry, fn_vars,
                   data, h_dispatched>>

PlayStart ==
    /\ pc = "play_start_held"
    /\ is_playing' = TRUE
    /\ CtlUnlock("is_playing")
    /\ EndCommand
    /\ UNCHANGED <<cmd_rx, paths, synth, playback_events, playback_index, cb_pc,
                   telemetry, fn_vars,
                   data, h_dispatched>>

\* Pause, lines 517-518.
PauseStopLock == CtlLock("pause_stop", "is_playing", "pause_stop_held")

\* Mutant of PauseStop: Pause toggles the play flag.
PauseStop_Toggles ==
    /\ pc = "pause_stop_held"
    /\ is_playing' = ~is_playing
    /\ CtlUnlock("is_playing")
    /\ pc' = "pause_burst"
    /\ UNCHANGED <<cmd_rx, ctl_locals, paths, synth, playback_events, playback_index,
                   cb_pc, telemetry, fn_vars,
                   data, h_dispatched, observer>>

PauseStop ==
    /\ pc = "pause_stop_held"
    /\ is_playing' = FALSE
    /\ CtlUnlock("is_playing")
    /\ pc' = "pause_burst"
    /\ UNCHANGED <<cmd_rx, ctl_locals, paths, synth, playback_events, playback_index,
                   cb_pc, telemetry, fn_vars,
                   data, h_dispatched, observer>>

PauseBurstLock == CtlLock("pause_burst", "synth", "pause_burst_held")

PauseBurst ==
    /\ pc = "pause_burst_held"
    /\ synth' = send_all_notes_off(synth)
    /\ CtlUnlock("synth")
    /\ EndCommand
    /\ UNCHANGED <<cmd_rx, paths, playback_events, playback_index, is_playing, cb_pc,
                   telemetry, fn_vars,
                   data, h_dispatched>>

\* Stop, lines 522-529.
StopStopLock == CtlLock("stop_stop", "is_playing", "stop_stop_held")

\* Mutant of StopStop: Stop does not clear the play flag.
StopStop_KeepsPlaying ==
    /\ pc = "stop_stop_held"
    /\ is_playing' = is_playing
    /\ CtlUnlock("is_playing")
    /\ pc' = "stop_store"
    /\ UNCHANGED <<cmd_rx, ctl_locals, paths, synth, playback_events, playback_index,
                   cb_pc, telemetry, fn_vars,
                   data, h_dispatched, observer>>

StopStop ==
    /\ pc = "stop_stop_held"
    /\ is_playing' = FALSE
    /\ CtlUnlock("is_playing")
    /\ pc' = "stop_store"
    /\ UNCHANGED <<cmd_rx, ctl_locals, paths, synth, playback_events, playback_index,
                   cb_pc, telemetry, fn_vars,
                   data, h_dispatched, observer>>

StopStore ==
    /\ pc = "stop_store"
    /\ samples_played' = 0
    /\ pc' = "stop_index"
    /\ UNCHANGED <<cmd_rx, ctl_locals, paths, shared, locks, cb_pc, total_samples,
                   max_tick, last_event_sample, last_event_tick, next_event_sample,
                   next_event_tick, fn_vars,
                   data, h_dispatched, observer>>

StopIndexLock == CtlLock("stop_index", "playback_index", "stop_index_held")

StopIndex ==
    /\ pc = "stop_index_held"
    /\ playback_index' = 0
    /\ h_dispatched' = <<>>
    /\ CtlUnlock("playback_index")
    /\ pc' = "stop_reset"
    /\ UNCHANGED <<cmd_rx, ctl_locals, paths, synth, playback_events, is_playing,
                   cb_pc, telemetry, fn_vars,
                   data, observer>>

StopResetLock == CtlLock("stop_reset", "synth", "stop_reset_held")

StopReset ==
    /\ pc = "stop_reset_held"
    /\ synth' = hard_reset_synth(last_soundfont_path)
    /\ CtlUnlock("synth")
    /\ EndCommand
    /\ UNCHANGED <<cmd_rx, paths, playback_events, playback_index, is_playing, cb_pc,
                   telemetry, fn_vars,
                   data, h_dispatched>>

\* Rewind, lines 533-539.
RewindStore ==
    /\ pc = "rewind_store"
    /\ samples_played' = 0
    /\ pc' = "rewind_index"
    /\ UNCHANGED <<cmd_rx, ctl_locals, paths, shared, locks, cb_pc, total_samples,
                   max_tick, last_event_sample, last_event_tick, next_event_sample,
                   next_event_tick, fn_vars,
                   data, h_dispatched, observer>>

RewindIndexLock == CtlLock("rewind_index", "playback_index", "rewind_index_held")

\* Mutant of RewindIndex: the dispatch index is locked but not reset.
RewindIndex_KeepsIndex ==
    /\ pc = "rewind_index_held"
    /\ playback_index' = playback_index
    /\ CtlUnlock("playback_index")
    /\ pc' = "rewind_reset"
    /\ UNCHANGED <<cmd_rx, ctl_locals, paths, synth, playback_events, is_playing,
                   cb_pc, telemetry, fn_vars,
                   data, h_dispatched, observer>>

RewindIndex ==
    /\ pc = "rewind_index_held"
    /\ playback_index' = 0
    /\ h_dispatched' = <<>>
    /\ CtlUnlock("playback_index")
    /\ pc' = "rewind_reset"
    /\ UNCHANGED <<cmd_rx, ctl_locals, paths, synth, playback_events, is_playing,
                   cb_pc, telemetry, fn_vars,
                   data, observer>>

RewindResetLock == CtlLock("rewind_reset", "synth", "rewind_reset_held")

RewindReset ==
    /\ pc = "rewind_reset_held"
    /\ synth' = hard_reset_synth(last_soundfont_path)
    /\ CtlUnlock("synth")
    /\ EndCommand
    /\ UNCHANGED <<cmd_rx, paths, playback_events, playback_index, is_playing, cb_pc,
                   telemetry, fn_vars,
                   data, h_dispatched>>


\* --------------------------------------------------------- render callback

\* The callback holds a MutexGuard from each successful try_lock until it
\* returns; on a failed try_lock it returns, dropping the guards it has.
CbTake(m) == [locks EXCEPT ![m] = "cb"]
CbDropAll == [m \in Mutexes |-> IF locks[m] = "cb" THEN "free" ELSE locks[m]]

CbTryLock(at, m, to) ==
    /\ cb_pc = at
    /\ locks[m] = "free"
    /\ locks' = CbTake(m)
    /\ cb_pc' = to
    /\ h_quiet' = 0
    /\ UNCHANGED <<cmd_rx, pc, ctl_locals, paths, shared, telemetry, fn_vars,
                   data, h_dispatched, h_watch, h_last, h_at_recv>>

\* Mutant of CbTryLockFails: the callback returns with its guards kept.
CbTryLockFails_KeepsGuards(at, m) ==
    /\ cb_pc = at
    /\ locks[m] # "free"
    /\ cb_pc' = "idle"
    /\ h_quiet' = 0
    /\ UNCHANGED <<cmd_rx, pc, ctl_locals, paths, shared, locks, telemetry, fn_vars,
                   data, h_dispatched, h_watch, h_last, h_at_recv>>

CbTryLockFails(at, m) ==
    /\ cb_pc = at
    /\ locks[m] # "free"
    /\ locks' = CbDropAll
    /\ cb_pc' = "idle"
    /\ h_quiet' = 0
    /\ UNCHANGED <<cmd_rx, pc, ctl_locals, paths, shared, telemetry, fn_vars,
                   data, h_dispatched, h_watch, h_last, h_at_recv>>

\* Lines 402-413.
CbLockSynth == CbTryLock("idle", "synth", "try_events")
CbLockSynthFails == CbTryLockFails("idle", "synth")
CbLockEvents == CbTryLock("try_events", "playback_events", "try_index")
CbLockEventsFails == CbTryLockFails("try_events", "playback_events")
CbLockIndex == CbTryLock("try_index", "playback_index", "try_playing")
CbLockIndexFails == CbTryLockFails("try_index", "playback_index")
CbLockPlaying == CbTryLock("try_playing", "is_playing", "frame")
CbLockPlayingFails == CbTryLockFails("try_playing", "is_playing")

\* Lines 418-424: the while loop.  st is [index, sent, synth, last_sample,
\* last_tick]; the Vec is indexed from 0, the sequence from 1.  sent is the
\* history of the positions whose event was sent to the synth.
RECURSIVE DispatchDue(_, _, _)
DispatchDue(events, st, current_sample) ==
    IF st.index < Len(events) /\ events[st.index + 1].sample <= current_sample
    THEN LET ev == events[st.index + 1] IN
         DispatchDue(events,
                     [index |-> st.index + 1,
                      sent |-> Append(st.sent, st.index),
                      synth |-> SynthSend(st.synth, ev.event),
                      last_sample |-> ev.sample,
                      last_tick |-> ev.tick],
                     current_sample)
    ELSE st

\* Mutant of CbFrameStores: with the schedule exhausted the last dispatched
\* event is published as the next one.
CbFrameStores_LastAtEnd(st) ==
    /\ playback_index' = st.index
    /\ h_dispatched' = st.sent
    /\ synth' = st.synth
    /\ last_event_sample' = st.last_sample
    /\ last_event_tick' = st.last_tick
    /\ IF st.index < Len(playback_events)
       THEN /\ next_event_sample' = playback_events[st.index + 1].sample
            /\ next_event_tick' = playback_events[st.index + 1].tick
       ELSE /\ next_event_sample' = st.last_sample
            /\ next_event_tick' = st.last_tick

\* Lines 417-438 of one frame while playing: the load of samples_played, the
\* dispatch loop and the stores of next_event_*.
CbFrameStores(st) ==
    /\ playback_index' = st.index
    /\ h_dispatched' = st.sent
    /\ synth' = st.synth
    /\ last_event_sample' = st.last_sample
    /\ last_event_tick' = st.last_tick
    /\ IF st.index < Len(playback_events)
       THEN /\ next_event_sample' = playback_events[st.index + 1].sample
            /\ next_event_tick' = playback_events[st.index + 1].tick
       ELSE /\ next_event_sample' = total_samples
            /\ next_event_tick' = max_tick

\* Mutant of CbFrameDispatch: the loop scans the schedule from its start.
CbFrameDispatch_Rescan ==
    /\ cb_pc = "frame"
    /\ is_playing
    /\ samples_played < MaxSamples
    /\ CbFrameStores(DispatchDue(playback_events,
                                 [index |-> 0, sent |-> h_dispatched,
                                  synth |-> synth,
                                  last_sample |-> last_event_sample,
                                  last_tick |-> last_event_tick],
                                 samples_played))
    /\ cb_pc' = "advance"
    /\ h_quiet' = 0
    /\ UNCHANGED <<cmd_rx, pc, ctl_locals, paths, playback_events, is_playing, locks,
                   samples_played, total_samples, max_tick, fn_vars,
                   data, h_watch, h_last, h_at_recv>>

CbFrameDispatch ==
    /\ cb_pc = "frame"
    /\ is_playing
    /\ samples_played < MaxSamples
    /\ CbFrameStores(DispatchDue(playback_events,
                                 [index |-> playback_index, sent |-> h_dispatched,
                                  synth |-> synth,
                                  last_sample |-> last_event_sample,
                                  last_tick |-> last_event_tick],
                                 samples_played))
    /\ cb_pc' = "advance"
    /\ h_quiet' = 0
    /\ UNCHANGED <<cmd_rx, pc, ctl_locals, paths, playback_events, is_playing, locks,
                   samples_played, total_samples, max_tick, fn_vars,
                   data, h_watch, h_last, h_at_recv>>

\* Lines 440-445 of the same frame: synth.write and samples_played.fetch_add(1).
\* Mutant of CbFrameAdvance: the cursor stops at total_samples.
CbFrameAdvance_StopsAtEnd ==
    /\ cb_pc = "advance"
    /\ data' = "samples"
    /\ samples_played' = IF samples_played < total_samples THEN samples_played + 1
                         ELSE samples_played
    /\ cb_pc' = "frame"
    /\ h_quiet' = 0
    /\ UNCHANGED <<cmd_rx, pc, ctl_locals, paths, shared, locks, total_samples,
                   max_tick, last_event_sample, last_event_tick, next_event_sample,
                   next_event_tick, fn_vars,
                   h_dispatched, h_watch, h_last, h_at_recv>>

CbFrameAdvance ==
    /\ cb_pc = "advance"
    /\ data' = "samples"
    /\ samples_played' = samples_played + 1
    /\ cb_pc' = "frame"
    /\ h_quiet' = 0
    /\ UNCHANGED <<cmd_rx, pc, ctl_locals, paths, shared, locks, total_samples,
                   max_tick, last_event_sample, last_event_tick, next_event_sample,
                   next_event_tick, fn_vars,
                   h_dispatched, h_watch, h_last, h_at_recv>>

\* Lines 446-450: a frame while not playing is filled with 0.0.
CbFrameSilent ==
    /\ cb_pc = "frame"
    /\ ~is_playing
    /\ data' = "silence"
    /\ h_quiet' = 0
    /\ UNCHANGED <<cmd_rx, pc, ctl_locals, paths, shared, locks, cb_pc, telemetry,
                   fn_vars, h_dispatched, h_watch, h_last, h_at_recv>>

\* Mutant of CbReturn: the closure returns with its guards kept.
CbReturn_KeepsGuards ==
    /\ cb_pc = "frame"
    /\ data # "unwritten" \/ (is_playing /\ samples_played >= MaxSamples)
    /\ cb_pc' = "idle"
    /\ data' = "unwritten"
    /\ h_quiet' = 0
    /\ UNCHANGED <<cmd_rx, pc, ctl_locals, paths, shared, locks, telemetry, fn_vars,
                   h_dispatched, h_watch, h_last, h_at_recv>>

\* The end of the buffer: the closure returns and its guards are dropped.
\* A buffer holds at least one frame; at the model's bound on the cursor the
\* callback returns without one.
CbReturn ==
    /\ cb_pc = "frame"
    /\ data # "unwritten" \/ (is_playing /\ samples_played >= MaxSamples)
    /\ locks' = CbDropAll
    /\ cb_pc' = "idle"
    /\ data' = "unwritten"
    /\ h_quiet' = 0
    /\ UNCHANGED <<cmd_rx, pc, ctl_locals, paths, shared, telemetry, fn_vars,
                   h_dispatched, h_watch, h_last, h_at_recv>>

\* ----------------------------------------------------------- specification

ControlThread ==
    \/ Recv
    \/ PlayCheck \/ PlayCheckEmpty
    \/ PlayStopLock \/ PlayStop
    \/ PlayBurstLock \/ PlayBurst
    \/ PlayFont \/ PlayAddFont
    \/ PlayBuild
    \/ PlayInstallLock \/ PlayInstall
    \/ PlayPublish
    \/ PlayIndexLock \/ PlayIndex
    \/ PlayStartLock \/ PlayNoStart \/ PlayStart
    \/ PauseStopLock \/ PauseStop \/ PauseBurstLock \/ PauseBurst
    \/ StopStopLock \/ StopStop \/ StopStore \/ StopIndexLock \/ StopIndex
    \/ StopResetLock \/ StopReset
    \/ RewindStore \/ RewindIndexLock \/ RewindIndex \/ RewindResetLock \/ RewindReset

RenderCallback ==
    \/ CbLockSynth \/ CbLockSynthFails
    \/ CbLockEvents \/ CbLockEventsFails
    \/ CbLockIndex \/ CbLockIndexFails
    \/ CbLockPlaying \/ CbLockPlayingFails
    \/ CbFrameDispatch \/ CbFrameAdvance \/ CbFrameSilent \/ CbReturn

Next ==
    \/ \E c \in Commands : Send(c)
    \/ ControlThread
    \/ RenderCallback

Spec == Init /\ [][Next]_vars


\* The engine under a user who sends one command at a time, with the
\* observer recording.
InitSeq ==
    /\ InitEngine
    /\ h_watch = TRUE
    /\ fn_in = NoQuery
    /\ fn_out = None

NextSeq ==
    \/ \E c \in Commands : SendNext(c)
    \/ ControlThread
    \/ RenderCallback

SpecSeq == InitSeq /\ [][NextSeq]_vars

\* The engine under a user who lets commands pile up in the channel.
NextBacklog ==
    \/ \E c \in BacklogCommands : SendBacklog(c)
    \/ ControlThread
    \/ RenderCallback

SpecBacklog == Init /\ [][NextBacklog]_vars

\* The engine under a user who sends one command at a time and plays a file
\* that ends before the model's bound on the cursor, a file without events
\* and one that does not load.
ShortCommands ==
    {Command("Play", "n.mid", "x.sf2"), Command("Play", "e.mid", "y.sf2"),
     Command("Play", "bad.mid", "x.sf2"),
     Command("Pause", "", ""), Command("Stop", "", ""), Command("Rewind", "", "")}

NextShort ==
    \/ \E c \in ShortCommands : SendNext(c)
    \/ ControlThread
    \/ RenderCallback

SpecShort == Init /\ [][NextShort]_vars

\* The engine under a user who sends one command at a time and plays a file
\* whose two events are three samples apart.
GapCommands ==
    {Command("Play", "g.mid", "x.sf2"), Command("Play", "e.mid", "y.sf2"),
     Command("Play", "bad.mid", "x.sf2"),
     Command("Pause", "", ""), Command("Stop", "", ""), Command("Rewind", "", "")}

NextGap ==
    \/ \E c \in GapCommands : SendNext(c)
    \/ ControlThread
    \/ RenderCallback

SpecGap == Init /\ [][NextGap]_vars

\* The engine under handle_input.  The files the user may have selected:
\* one that loads and one that does not.
UiMidiPaths == {"n.mid", "bad.mid"}
UiSoundFonts == {"x.sf2"}

\* input.rs: the play key, the Play selection and Space with the transport
\* focused.  Playing becomes Paused and Pause is sent; Paused or Stopped
\* becomes Playing and Play(midi, sf) is sent when both paths are selected
\* (the handler does nothing when one is missing).  The status is written
\* before the command is processed.
PlayKey(midi, sf) ==
    /\ Len(cmd_rx) < MaxBacklog
    /\ IF playback_status = "Playing"
          THEN /\ playback_status' = "Paused"
               /\ cmd_rx' = Append(cmd_rx, Command("Pause", "", ""))
          ELSE /\ playback_status' = "Playing"
               /\ cmd_rx' = Append(cmd_rx, Command("Play", midi, sf))
    /\ UNCHANGED <<pc, ctl_locals, paths, shared, locks, cb_pc, telemetry, fn_in, fn_out,
                   data, h_dispatched, observer>>

\* input.rs: the stop key and the Stop selection.
StopKey ==
    /\ Len(cmd_rx) < MaxBacklog
    /\ playback_status' = "Stopped"
    /\ cmd_rx' = Append(cmd_rx, Command("Stop", "", ""))
    /\ UNCHANGED <<pc, ctl_locals, paths, shared, locks, cb_pc, telemetry, fn_in, fn_out,
                   data, h_dispatched, observer>>

\* input.rs: the Rewind selection; the status is left as it is.
RewindSelection ==
    /\ Len(cmd_rx) < MaxBacklog
    /\ cmd_rx' = Append(cmd_rx, Command("Rewind", "", ""))
    /\ UNCHANGED <<pc, ctl_locals, paths, shared, locks, cb_pc, telemetry, fn_vars,
                   data, h_dispatched, observer>>

handle_input ==
    \/ \E midi \in UiMidiPaths, sf \in UiSoundFonts : PlayKey(midi, sf)
    \/ StopKey
    \/ RewindSelection

NextUi ==
    \/ handle_input
    \/ ControlThread
    \/ RenderCallback

SpecUi == Init /\ [][NextUi]_vars

\* The same engine with its scheduling.  The device calls the render
\* callback again and again and the callback runs on: weak fairness of its
\* steps.  A buffer has finitely many frames, so an invocation that is at
\* the end of a frame again and again returns: strong fairness of CbReturn.
\* The control thread runs whenever it can take a step, and a lock() that
\* waits takes the mutex when the callback, which is idle between two
\* buffers, leaves it free again and again: strong fairness of its steps.
Scheduling ==
    /\ WF_vars(RenderCallback)
    /\ SF_vars(CbReturn)
    /\ SF_vars(ControlThread)

SpecLive == Init /\ [][NextShort]_vars /\ Scheduling


\* ------------------------------------- specification of the position queries

\* current_tick and current_tick_ratio read the counters one by one with
\* relaxed loads while the other threads write them, so a query can see any
\* combination of values: the inputs are all combinations up to MaxVal.
InitQuery ==
    /\ InitEngine
    /\ h_watch = FALSE
    /\ fn_in \in [samples : 0..MaxVal, last_sample : 0..MaxVal, last_tick : 0..MaxVal,
                  next_sample : 0..MaxVal, next_tick : 0..MaxVal, max_tick : 0..MaxVal]
    /\ fn_out = None

Query ==
    /\ fn_out = None
    /\ fn_out' = Some([tick |-> current_tick(fn_in), ratio |-> current_tick_ratio(fn_in)])
    /\ UNCHANGED <<cmd_rx, pc, ctl_locals, paths, shared, locks, cb_pc, telemetry, fn_in, playback_status,
                   data, h_dispatched, observer>>

NextQuery == Query

SpecQuery == InitQuery /\ [][NextQuery]_vars


\* ------------------------------------ specification of the schedule compiler

\* The sources compiled: two tracks holding up to MaxEvents events between
\* them, each event MaxDelta ticks at most after the one before it in its
\* track; a note on, its note off, its note on with velocity 0, a program
\* change or a tempo change of one second per beat.  With TimingTicks ticks
\* per beat and the default tempo a tick is half a sample, so different
\* ticks can round to the same sample.
TimingTicks == 2

EventShapes ==
    {TrackEv(0, "NoteOn", 0, 60, 100, 0),
     TrackEv(0, "NoteOff", 0, 60, 0, 0),
     TrackEv(0, "NoteOn", 0, 60, 0, 0),
     TrackEv(0, "ProgramChange", 0, 5, 0, 0),
     TrackEv(0, "Tempo", 0, 0, 0, MicrosPerSecond)}

TrackEvents == {[e EXCEPT !.delta = d] : e \in EventShapes, d \in 0..MaxDelta}

SplitSmf(s, k) ==
    [timing |-> [metrical |-> TRUE, ticks |-> TimingTicks],
     tracks |-> <<SubSeq(s, 1, k), SubSeq(s, k + 1, Len(s))>>]

InitCompile ==
    /\ InitEngine
    /\ h_watch = FALSE
    /\ \E n \in 0..MaxEvents : \E s \in [1..n -> TrackEvents] : \E k \in 0..n :
          fn_in = SplitSmf(s, k)
    /\ fn_out = None

\* build_playback_schedule_from_smf(&smf, sample_rate)
CompileFile ==
    /\ fn_out = None
    /\ fn_out' = Some(build_playback_schedule_from_smf(fn_in, SampleRate))
    /\ UNCHANGED <<cmd_rx, pc, ctl_locals, paths, shared, locks, cb_pc, telemetry, fn_in, playback_status,
                   data, h_dispatched, observer>>

NextCompile == CompileFile

SpecCompile == InitCompile /\ [][NextCompile]_vars


\* ------------------------------------------ specification of the tempo map

\* The tempo lists mapped: up to MaxTempoEvents tempo events in any order,
\* each at a tick up to MaxTempoTick; a tempo of 0, of a quarter of a second
\* or of one second per beat.  The tick converted runs one past the last
\* tempo tick.
TempoValues == {0, 250000, 1000000}

TempoEvents == [tick : 0..MaxTempoTick, us_per_beat : TempoValues]

QueryTicks == 0..(MaxTempoTick + 1)

InitTempo ==
    /\ InitEngine
    /\ h_watch = FALSE
    /\ \E n \in 0..MaxTempoEvents : \E s \in [1..n -> TempoEvents] : \E t \in QueryTicks :
          fn_in = [tempo_events |-> s, tick |-> t]
    /\ fn_out = None

\* build_tempo_segments(&tempo_events, ticks_per_beat) and
\* ticks_to_seconds(tick, &segments, ticks_per_beat).  Seconds are kept as
\* the numerator of the fraction over 1000000 * ticks_per_beat.
ConvertTick ==
    /\ fn_out = None
    /\ fn_out' = Some([segments |-> build_tempo_segments(fn_in.tempo_events),
                       seconds |-> ticks_to_seconds(fn_in.tick,
                                       build_tempo_segments(fn_in.tempo_events))])
    /\ UNCHANGED <<cmd_rx, pc, ctl_locals, paths, shared, locks, cb_pc, telemetry, fn_in, playback_status,
                   data, h_dispatched, observer>>

NextTempo == ConvertTick

SpecTempo == InitTempo /\ [][NextTempo]_vars


\* --------------------------- specification of the compiler's sample offsets

\* The sources compiled at a device's sample rate: one track with a note on
\* and its note off, each at the tick of the event before it, one tick or
\* 120 ticks later, with or without a tempo change to 600000 microseconds
\* per beat before them; a header of 0, 2 or 480 ticks per beat or with a
\* timecode timing; a sample rate of 2, 44100 or 48000.
RateDeltas == {0, 1, 120}

RateTimings ==
    {[metrical |-> TRUE, ticks |-> 0], [metrical |-> TRUE, ticks |-> 2],
     [metrical |-> TRUE, ticks |-> 480], [metrical |-> FALSE, ticks |-> 0]}

SampleRates == {2, 44100, 48000}

RateTempos == {<<>>, <<TrackEv(0, "Tempo", 0, 0, 0, 600000)>>}

NoteTrack(tempo, on, off) ==
    tempo \o <<TrackEv(on, "NoteOn", 0, 60, 100, 0), TrackEv(off, "NoteOff", 0, 60, 0, 0)>>

InitRate ==
    /\ InitEngine
    /\ h_watch = FALSE
    /\ \E tempo \in RateTempos : \E on \in RateDeltas : \E off \in RateDeltas :
       \E timing \in RateTimings : \E rate \in SampleRates :
          fn_in = [smf |-> [timing |-> timing, tracks |-> <<NoteTrack(tempo, on, off)>>],
                   sample_rate |-> rate]
    /\ fn_out = None

\* build_playback_schedule_from_smf(&smf, sample_rate)
CompileAtRate ==
    /\ fn_out = None
    /\ fn_out' = Some(build_playback_schedule_from_smf(fn_in.smf, fn_in.sample_rate))
    /\ UNCHANGED <<cmd_rx, pc, ctl_locals, paths, shared, locks, cb_pc, telemetry, fn_in, playback_status,
                   data, h_dispatched, observer>>

NextRate == CompileAtRate

SpecRate == InitRate /\ [][NextRate]_vars


\* ------------------------------------ specification of the silencing burst

\* send_all_notes_off message by message.  The controllers sent to each
\* channel, each with value 0, before the channel's note-offs.
BurstControllers == <<64, 120, 123, 121>>

\* The messages sent to one channel.
BurstPerChannel == Len(BurstControllers) + NumKeys

\* Mutant of BurstMessage: the key loop starts at key 1.
BurstMessage_FromKeyOne(channel, j) ==
    IF j <= Len(BurstControllers)
    THEN SynthEvent("ControlChange", channel, BurstControllers[j], 0)
    ELSE SynthEvent("NoteOff", channel, Max(j - Len(BurstControllers) - 1, 1), 0)

\* The j-th message (from 1) of the body of 'for channel in 0u8..16'.
BurstMessage(channel, j) ==
    IF j <= Len(BurstControllers)
    THEN SynthEvent("ControlChange", channel, BurstControllers[j], 0)
    ELSE SynthEvent("NoteOff", channel, j - Len(BurstControllers) - 1, 0)

\* All the send_event calls of send_all_notes_off, in order.
BurstMessages ==
    [i \in 1..(NumChannels * BurstPerChannel) |->
        BurstMessage((i - 1) \div BurstPerChannel, ((i - 1) % BurstPerChannel) + 1)]

\* The synth after the messages from..to of the burst were sent in order:
\* after the first half of them, then the second.  The synth after the
\* first half is compared, so that it is computed before the second half
\* is sent.
RECURSIVE SendRange(_, _, _)
SendRange(s, from, to) ==
    IF from > to THEN s
    ELSE IF from = to THEN SynthSend(s, BurstMessages[from])
    ELSE LET half == SendRange(s, from, (from + to) \div 2)
         IN IF half = s THEN SendRange(s, (from + to) \div 2 + 1, to)
            ELSE SendRange(half, (from + to) \div 2 + 1, to)

\* The synths the burst is sent to: with or without a soundfont, any of
\* three programs, and any notes sounding of the lowest and highest key of
\* the first and last channel and one key of the percussion channel.
BurstNotes == {<<0, 0>>, <<9, 60>>, <<15, 0>>, <<15, 127>>}
BurstPrograms == {0, 5, 7}

InitBurst ==
    /\ InitEngine
    /\ h_watch = FALSE
    /\ fn_in \in [font : {None, Some("x.sf2")}, notes : SUBSET BurstNotes,
                  program : BurstPrograms]
    /\ fn_out = None

\* send_all_notes_off(&mut synth)
SendBurst ==
    /\ fn_out = None
    /\ fn_out' = Some([sent |-> BurstMessages, synth |-> SendRange(fn_in, 1, Len(BurstMessages))])
    /\ UNCHANGED <<cmd_rx, pc, ctl_locals, paths, shared, locks, cb_pc, telemetry, fn_in, playback_status,
                   data, h_dispatched, observer>>

NextBurst == SendBurst

SpecBurst == InitBurst /\ [][NextBurst]_vars


\* ------------------------------------------------------------------ claims

\* A step of the control thread: each of its statements moves pc.
CtlStep == pc' # pc

\* The Play being processed names a MIDI file that cannot be read or parsed.
\* Such a Play always requires a reload: last_midi_path is only ever set to
\* a path whose schedule was built.
FailingPlay == cmd.type = "Play" /\ ~MidiFile(cmd.midi).ok

\* The Play being processed carries the pair that was loaded when it was
\* received.
SamePairPlay ==
    /\ cmd.type = "Play"
    /\ h_prev_midi = Some(cmd.midi)
    /\ last_soundfont_path = Some(cmd.sf)

\* The Play being processed names another MIDI file than the loaded one.
OtherMidiPlay == cmd.type = "Play" /\ h_prev_midi # Some(cmd.midi)

\* The statements of a reloading Play from the moment the burst starts (the
\* synth is locked for it) until the play flag is set again.
ReloadFromBurst ==
    {"play_burst_held", "play_font", "play_font_held", "play_build", "play_install",
     "play_install_held", "play_publish", "play_index", "play_index_held",
     "play_start", "play_start_held"}

\* C1: no step of a Play whose MIDI file fails to load changes the play
\* flag: a transport that was Playing is still Playing, one that was not
\* does not start.
C1_FailedReloadKeepsTransport ==
    [][(FailingPlay /\ CtlStep) => is_playing' = is_playing]_vars

\* C2: no step of a Play whose MIDI file fails to load changes the installed
\* events, samples_played, the dispatch index, the telemetry counters or the
\* remembered paths.
C2_FailedReloadKeepsSchedule ==
    [][(FailingPlay /\ CtlStep) =>
          UNCHANGED <<playback_events, samples_played, playback_index, total_samples,
                      max_tick, last_event_sample, last_event_tick, next_event_sample,
                      next_event_tick, last_midi_path, last_soundfont_path>>]_vars

\* C2 witness: a reload has failed (the build is past, should_start is still
\* false) while a schedule was installed and partly played.
C2_Witness ==
    /\ FailingPlay
    /\ pc = "play_start"
    /\ should_reload /\ ~should_start
    /\ playback_events # <<>>
    /\ playback_index > 0
    /\ samples_played > 0

\* C3: no step of a Play that carries the loaded pair replaces the events,
\* resets samples_played or the dispatch index, or sends anything to the
\* synth, and the Play ends with the play flag set.
C3_SamePairResumesInPlace ==
    [][(SamePairPlay /\ CtlStep) =>
          /\ UNCHANGED <<playback_events, samples_played, playback_index, synth>>
          /\ (pc' = "recv" => is_playing')]_vars

\* C4: a Play that names another MIDI file than the loaded one is a reload,
\* keeps the play flag false from its line 473 on, and when it is about to
\* set the play flag the installed events are those compiled from its file
\* and samples_played and the dispatch index are 0.
C4_OtherMidiRebuilds ==
    OtherMidiPlay =>
        /\ pc \notin {"play_check", "play_check_held"} => should_reload
        /\ pc \in ReloadFromBurst \cup {"play_burst"} => ~is_playing
        /\ pc = "play_start_held" =>
              /\ build_playback_schedule(cmd.midi, SampleRate) # None
              /\ playback_events = build_playback_schedule(cmd.midi, SampleRate)[1].events
              /\ samples_played = 0
              /\ playback_index = 0

\* C4 witness: a.mid is loaded and played into, then a Play of e.mid is
\* about to set the play flag.
C4_Witness ==
    /\ pc = "play_start_held"
    /\ h_prev_midi = Some("a.mid")
    /\ cmd.midi = "e.mid"
    /\ last_event_sample = 0
    /\ synth.program = 5

\* C5: from the start of a reload's burst until the reload sets the play
\* flag again the render callback dispatches no event (the dispatch index
\* does not advance), and once the burst is sent no note sounds until then.
C5_ReloadSilence ==
    /\ [][(should_reload /\ pc \in ReloadFromBurst) =>
             playback_index' <= playback_index]_vars
    /\ [](should_reload /\ pc \in (ReloadFromBurst \ {"play_burst_held"}) =>
             synth.notes = {})

\* C5 witness: a reload replaces a schedule that was played into, with the
\* render callback running (it holds the synth, and waits for the events).
C5_Witness ==
    /\ should_reload
    /\ pc = "play_install_held"
    /\ cb_pc = "try_events"
    /\ playback_index > 0
    /\ schedule.events # playback_events

\* C6: when Stop, Rewind or a reloading Play has been processed
\* samples_played is 0, and samples_played decreases in no other step than
\* the resetting store of one of these.
C6_CursorResets ==
    [][/\ (pc \in {"stop_reset_held", "rewind_reset_held"} /\ pc' = "recv")
             => samples_played' = 0
       /\ (pc = "play_start_held" /\ should_reload /\ pc' = "recv")
             => samples_played' = 0
       /\ samples_played' < samples_played
             => pc \in {"stop_store", "rewind_store", "play_publish"} /\ CtlStep]_vars

\* C7: with a non-empty schedule installed, next_event_sample >=
\* last_event_sample and next_event_tick >= last_event_tick.
C7_NextNotBeforeLast ==
    playback_events # <<>> =>
        /\ next_event_sample >= last_event_sample
        /\ next_event_tick >= last_event_tick

\* C8: for every combination of counter values, current_tick() when present
\* is in [0, ruler_max_tick] and current_tick_ratio() when present in [0, 1].
C8_PositionBounds ==
    fn_out # None =>
        /\ fn_out[1].tick # None =>
              fn_out[1].tick[1] >= 0 /\ fn_out[1].tick[1] <= fn_in.max_tick
        /\ fn_out[1].ratio # None =>
              /\ fn_out[1].ratio[1][2] > 0
              /\ fn_out[1].ratio[1][1] >= 0
              /\ fn_out[1].ratio[1][1] <= fn_out[1].ratio[1][2]

\* C8 witness: a torn snapshot (the next event before the last one, the last
\* tick beyond the ruler) was queried and both values are present.
C8_Witness ==
    /\ fn_out # None
    /\ fn_out[1].tick # None /\ fn_out[1].ratio # None
    /\ fn_in.next_sample < fn_in.last_sample
    /\ fn_in.last_tick > fn_in.max_tick
    /\ fn_in.samples > fn_in.next_sample

C10_PresentOnceLoaded ==
    last_midi_path # None =>
        /\ current_tick(Telemetry) # None
        /\ current_tick_ratio(Telemetry) # None

\* A step of the render callback: each of its statements moves cb_pc,
\* except a silent frame, which writes the buffer.
CbStep == cb_pc' # cb_pc \/ data' # data

\* The schedule positions from..(to - 1), in order.
Positions(from, to) == [i \in 1..(to - from) |-> from + i - 1]

\* The mutex each try_lock of the callback is for.
LockPoints == {"idle", "try_events", "try_index", "try_playing"}
LockAt(at) ==
    CASE at = "idle" -> "synth"
      [] at = "try_events" -> "playback_events"
      [] at = "try_index" -> "playback_index"
      [] at = "try_playing" -> "is_playing"

\* C11: a frame rendered while Playing dispatches exactly the scheduled
\* events from the dispatch index on whose sample is at most samples_played,
\* in schedule order; the dispatch index changes only by such a dispatch,
\* forward, or by a reset to 0 on the control thread; so the positions
\* dispatched since the last reset are 0, 1, .., index - 1, each once.
C11_DispatchesDueInOrder ==
    /\ [][(cb_pc = "frame" /\ cb_pc' = "advance") =>
            /\ playback_index' >= playback_index
            /\ \A i \in 1..Len(playback_events) :
                  (i > playback_index /\ playback_events[i].sample <= samples_played)
                      <=> (i > playback_index /\ i <= playback_index')
            /\ h_dispatched' = h_dispatched \o Positions(playback_index, playback_index')]_vars
    /\ [][playback_index' # playback_index =>
            \/ cb_pc = "frame" /\ cb_pc' = "advance" /\ playback_index' > playback_index
            \/ /\ pc \in {"play_index_held", "stop_index_held", "rewind_index_held"}
               /\ CtlStep
               /\ playback_index' = 0]_vars
    /\ [](h_dispatched = Positions(0, playback_index))

\* C11 witness: a frame has just dispatched the last event of a schedule of
\* several events, every position once.
C11_Witness ==
    /\ cb_pc = "advance"
    /\ Len(playback_events) > 1
    /\ playback_index = Len(playback_events)
    /\ h_dispatched = Positions(0, Len(playback_events))
    /\ last_event_sample = samples_played

\* C12: the callback never waits: at each of its four lock attempts it can
\* take a step whoever holds the mutex; it renders frames only while it
\* holds all four; and an attempt on a mutex that is not free ends the
\* callback with every guard dropped, no event dispatched, no telemetry
\* written, samples_played not advanced and the buffer not written.
C12_NeverWaitsSkipsBuffer ==
    /\ [](cb_pc \in LockPoints => ENABLED RenderCallback)
    /\ [](cb_pc \in {"frame", "advance"} => \A m \in Mutexes : locks[m] = "cb")
    /\ [][(cb_pc \in LockPoints /\ CbStep) =>
            IF locks[LockAt(cb_pc)] = "free"
            THEN locks' = [locks EXCEPT ![LockAt(cb_pc)] = "cb"]
            ELSE /\ cb_pc' = "idle"
                 /\ \A m \in Mutexes : locks'[m] # "cb"
                 /\ UNCHANGED <<shared, telemetry, h_dispatched, data>>]_vars

\* C12 witness: the callback holds the synth, the schedule and the index
\* and attempts the play flag while the control thread holds it.
C12_Witness ==
    /\ cb_pc = "try_playing"
    /\ locks["is_playing"] = "ctl"
    /\ locks["synth"] = "cb"
    /\ is_playing

\* C13: a render callback that runs while the play flag is false returns
\* with its buffer filled with silence, and none of its steps changes
\* samples_played, the dispatch index, the last/next telemetry or the synth
\* or dispatches an event.
C13_SilentWhileNotPlaying ==
    [][(CbStep /\ ~is_playing) =>
          /\ UNCHANGED <<samples_played, playback_index, last_event_sample,
                         last_event_tick, next_event_sample, next_event_tick, synth,
                         h_dispatched>>
          /\ data' # "samples"
          /\ (cb_pc' = "idle" => data = "silence")]_vars

\* The step that ends the command being processed.
Finishes == pc # "recv" /\ pc' = "recv"

\* The Play being processed has passed its path comparison and carries the
\* pair that was loaded when it was received.
PlayOfLoadedPair ==
    /\ cmd.type = "Play"
    /\ pc # "play_check"
    /\ h_prev_midi = Some(cmd.midi)
    /\ ~soundfont_changed

\* The transport as Stop leaves it.
Stopped ==
    /\ ~is_playing
    /\ samples_played = 0
    /\ playback_index = 0
    /\ h_dispatched = <<>>

\* C14: the statements of Rewind store 0 to samples_played, write 0 to the
\* dispatch index and replace the synth by a freshly reset one, as those of
\* Stop do, and none of them changes the play flag: the flag when Rewind
\* ends is the flag when it was received; whatever is dispatched after
\* Rewind's index reset starts at the first scheduled event.
C14_RewindResetsKeepsFlag ==
    /\ [][(cmd.type \in {"Rewind", "Stop"} /\ CtlStep) =>
            /\ (pc \in {"rewind_store", "stop_store"} => samples_played' = 0)
            /\ (pc \in {"rewind_index_held", "stop_index_held"} =>
                    playback_index' = 0 /\ h_dispatched' = <<>>)
            /\ (pc \in {"rewind_reset_held", "stop_reset_held"} =>
                    synth' = hard_reset_synth(last_soundfont_path))]_vars
    /\ [][(cmd.type = "Rewind" /\ CtlStep) => is_playing' = is_playing]_vars
    /\ [][(cmd.type = "Rewind" /\ Finishes) => is_playing' = h_at_recv[1].is_playing]_vars
    /\ []((h_last.type = "Rewind" /\ h_dispatched # <<>>) => h_dispatched[1] = 0)

\* C14 witness: Rewind of a Playing transport that had dispatched events
\* has ended, the transport is Playing and has dispatched the first
\* scheduled event again.
C14_Witness ==
    /\ pc = "recv"
    /\ h_last.type = "Rewind"
    /\ is_playing
    /\ h_dispatched = <<0>>
    /\ last_event_tick = playback_events[1].tick
    /\ cb_pc = "advance"

\* C15: when Stop ends the play flag is false and samples_played and the
\* dispatch index are 0; no step of the render callback, of the sender or
\* of a Pause, Stop or Rewind changes that, so it lasts until a Play is
\* processed; and a Play of the loaded pair that follows Stop ends Playing
\* with both still 0, so dispatch starts at the first scheduled event.
C15_StopHoldsUntilPlay ==
    /\ [][(cmd.type = "Stop" /\ Finishes) => Stopped']_vars
    /\ [][(Stopped /\ cmd.type # "Play") => Stopped']_vars
    /\ [][(cmd.type = "Play" /\ h_last.type = "Stop" /\ PlayOfLoadedPair /\ Finishes) =>
            /\ is_playing'
            /\ samples_played' = 0
            /\ playback_index' = 0
            /\ h_dispatched' = <<>>]_vars

\* C15 witness: Stop of a transport that had dispatched events has ended,
\* and a render callback is rendering silent frames.
C15_Witness ==
    /\ pc = "recv"
    /\ h_last.type = "Stop"
    /\ Stopped
    /\ last_event_sample > 0
    /\ cb_pc = "frame"
    /\ data = "silence"

\* C16: no statement of Pause changes the installed schedule, samples_played
\* or the dispatch index, and Pause ends with the play flag false; a Play of
\* the loaded pair that follows Pause ends Playing with the schedule,
\* samples_played and the dispatch index it found.
C16_PauseThenPlayResumes ==
    /\ [][(cmd.type = "Pause" /\ CtlStep) =>
            UNCHANGED <<playback_events, samples_played, playback_index>>]_vars
    /\ [][(cmd.type = "Pause" /\ Finishes) => ~is_playing']_vars
    /\ [][(cmd.type = "Play" /\ h_last.type = "Pause" /\ PlayOfLoadedPair /\ Finishes) =>
            /\ is_playing'
            /\ playback_events' = h_at_recv[1].playback_events
            /\ samples_played' = h_at_recv[1].samples_played
            /\ playback_index' = h_at_recv[1].playback_index]_vars

\* C17: the channel changes only by a send, which appends, or by the
\* control thread's recv, which takes the head and makes it the command
\* being processed; the command being processed changes only so or by ending;
\* recv happens only when no command is being processed, and then the
\* control thread holds no mutex; and no step of the render callback changes
\* the channel, the control thread's position, the play flag, the remembered
\* paths or the installed schedule.
C17_InOrderOneAtATime ==
    /\ [][cmd_rx' # cmd_rx =>
            \/ /\ \E c \in Commands : cmd_rx' = Append(cmd_rx, c)
               /\ UNCHANGED <<pc, cmd, cb_pc>>
            \/ /\ cmd_rx # <<>>
               /\ cmd_rx' = Tail(cmd_rx)
               /\ cmd' = Head(cmd_rx)
               /\ pc = "recv"
               /\ cmd = NoCommand
               /\ cb_pc' = cb_pc]_vars
    /\ [][cmd' # cmd =>
            \/ pc = "recv" /\ cmd_rx # <<>> /\ cmd' = Head(cmd_rx)
            \/ cmd' = NoCommand /\ pc' = "recv"]_vars
    /\ [](pc = "recv" => (cmd = NoCommand /\ \A m \in Mutexes : locks[m] # "ctl"))
    /\ [][CbStep => UNCHANGED <<cmd_rx, cmd, pc, is_playing, paths, playback_events>>]_vars

\* C17 witness: two different commands wait in the channel while the
\* control thread processes a third.
C17_Witness ==
    /\ Len(cmd_rx) = 2
    /\ cmd_rx[1] # cmd_rx[2]
    /\ cmd.type = "Play"
    /\ cmd_rx[1] # cmd
    /\ pc = "play_start_held"

\* C18: when a command ends that equals the command processed before it,
\* with no step of the render callback since that one was received, what
\* can be observed of the transport (play flag, samples_played, dispatch
\* index, installed schedule, telemetry) is what it was when the second
\* command was received.
C18_CommandsIdempotent ==
    [][(Finishes /\ h_quiet = 2 /\ h_last = cmd) => Observed' = h_at_recv[1]]_vars

\* C18 witness: a second Play of the same pair, which reloads, is about to
\* end, and the render callback has not run since the first was received.
C18_Witness ==
    /\ pc = "play_start_held"
    /\ h_quiet = 2
    /\ h_last = cmd
    /\ should_reload

\* The tick of the i-th event of a track: the sum of the deltas up to it.
RECURSIVE TickAt(_, _)
TickAt(track, i) == IF i = 0 THEN 0 ELSE TickAt(track, i - 1) + track[i].delta

\* The channel events of a source, each named by its track and its place in
\* the track.
Encountered(smf) ==
    UNION {{<<t, i>> : i \in {j \in 1..Len(smf.tracks[t]) : smf.tracks[t][j].kind \in MidiKinds}}
           : t \in 1..Len(smf.tracks)}

\* The sample of a tick under the tempo map of the source.
SampleAt(smf, segments, tick) ==
    SecondsToSample(ticks_to_seconds(tick, segments), TicksPerBeat(smf), SampleRate)

\* Sample, then tick, then track in file order, then place in the track.
EncounterKey(smf, segments, p) ==
    <<SampleAt(smf, segments, TickAt(smf.tracks[p[1]], p[2])),
      TickAt(smf.tracks[p[1]], p[2]), p[1], p[2]>>

LexLess(a, b) ==
    \E n \in 1..Len(a) : a[n] < b[n] /\ \A m \in 1..(n - 1) : a[m] = b[m]

Rank(smf, segments, p) ==
    1 + Cardinality({q \in Encountered(smf) :
                        LexLess(EncounterKey(smf, segments, q), EncounterKey(smf, segments, p))})

ScheduledAs(smf, segments, p) ==
    [tick |-> TickAt(smf.tracks[p[1]], p[2]),
     sample |-> SampleAt(smf, segments, TickAt(smf.tracks[p[1]], p[2])),
     event |-> midi_message_to_event(smf.tracks[p[1]][p[2]].channel, smf.tracks[p[1]][p[2]])]

EncounterOrder(smf, segments) ==
    [n \in 1..Cardinality(Encountered(smf)) |->
        ScheduledAs(smf, segments, CHOOSE p \in Encountered(smf) : Rank(smf, segments, p) = n)]

\* The channel events of a source by sample, events of one sample by tick,
\* events of one tick by track in file order and then by place in the track.
InEncounterOrder(smf) ==
    EncounterOrder(smf, build_tempo_segments(parse_smf(smf).tempo_events))

\* C19: the samples of a compiled schedule never decrease along its events,
\* and the events are the source's channel events by sample, those of one
\* sample in tick order, those of one tick with the tracks in file order
\* and the events of a track in track order.
C19_ScheduleStable ==
    fn_out # None =>
        /\ \A i \in 1..(Len(fn_out[1].events) - 1) :
              fn_out[1].events[i].sample <= fn_out[1].events[i + 1].sample
        /\ fn_out[1].events = InEncounterOrder(fn_in)

\* C19 witness: three events compiled to the same sample: a program change
\* of the first track and a note on of the second at tick 1, in file order,
\* then the note off of the first track at tick 2.
C19_Witness ==
    /\ fn_out # None
    /\ Len(fn_in.tracks[1]) = 2
    /\ Len(fn_in.tracks[2]) = 1
    /\ Len(fn_out[1].events) = 3
    /\ \A i \in 1..3 : fn_out[1].events[i].sample = 1
    /\ fn_out[1].events[1].tick = 1 /\ fn_out[1].events[1].event.type = "ProgramChange"
    /\ fn_out[1].events[2].tick = 1 /\ fn_out[1].events[2].event.type = "NoteOn"
    /\ fn_out[1].events[3].tick = 2 /\ fn_out[1].events[3].event.type = "NoteOff"

\* A note on with a velocity above 0 starts a note; a note off, or a note on
\* with velocity 0, ends one.
StartsNote(ev) == ev.kind = "NoteOn" /\ ev.vel > 0
EndsNote(ev) == ev.kind = "NoteOff" \/ (ev.kind = "NoteOn" /\ ev.vel = 0)

\* The notes of a key that are active after the i-th event of a track.
RECURSIVE ActiveAfter(_, _, _)
ActiveAfter(track, i, key) ==
    IF i = 0 THEN 0
    ELSE IF track[i].key = key /\ StartsNote(track[i])
    THEN ActiveAfter(track, i - 1, key) + 1
    ELSE IF track[i].key = key /\ EndsNote(track[i]) /\ ActiveAfter(track, i - 1, key) > 0
    THEN ActiveAfter(track, i - 1, key) - 1
    ELSE ActiveAfter(track, i - 1, key)

\* The ticks at which the notes of a track close: where an event ends an
\* active note, and the track's final event tick if a note is still active
\* there.
TrackCloseTicks(track) ==
    {TickAt(track, i) : i \in {j \in 1..Len(track) :
        EndsNote(track[j]) /\ ActiveAfter(track, j - 1, track[j].key) > 0}}
    \cup {TickAt(track, Len(track)) : i \in {j \in 1..Len(track) :
        StartsNote(track[j]) /\ ActiveAfter(track, Len(track), track[j].key) > 0}}

NoteCloseTicks(smf) == UNION {TrackCloseTicks(smf.tracks[t]) : t \in 1..Len(smf.tracks)}

HasNote(smf) ==
    \E t \in 1..Len(smf.tracks) : \E i \in 1..Len(smf.tracks[t]) : StartsNote(smf.tracks[t][i])

SetMax(S) == CHOOSE x \in S : \A y \in S : y <= x

\* C20: the ruler_max_tick compiled from a source with at least one note is
\* the largest tick at which a note of the source closes, a note still
\* active at the end of its track closing at the track's final event tick.
C20_RulerIsLastNoteClose ==
    (fn_out # None /\ HasNote(fn_in)) =>
        fn_out[1].ruler_max_tick = SetMax(NoteCloseTicks(fn_in))

\* The largest absolute tick of an event, channel or meta, of a source; 0
\* for a source without events.
MaxRawTick(smf) ==
    SetMax({0} \cup {TickAt(smf.tracks[t], Len(smf.tracks[t])) : t \in 1..Len(smf.tracks)})

\* C21: the ruler_max_tick compiled from a source without notes is the
\* largest absolute tick of its events, channel and meta, over all tracks.
C21_RulerIsLastEventWithoutNotes ==
    (fn_out # None /\ ~HasNote(fn_in)) => fn_out[1].ruler_max_tick = MaxRawTick(fn_in)

\* C21 witness: a source without notes compiled, whose last event is a
\* tempo change one tick after its only channel event, in the other track.
C21_Witness ==
    /\ fn_out # None
    /\ ~HasNote(fn_in)
    /\ Len(fn_in.tracks[1]) = 1
    /\ Len(fn_in.tracks[2]) = 2
    /\ fn_in.tracks[2][2].kind = "Tempo"
    /\ Len(fn_out[1].events) = 1
    /\ fn_out[1].events[1].tick = 1
    /\ fn_out[1].ruler_max_tick = 2

\* The tempo list holds no event, or one event and that at tick 0.
ConstantTempo(tempo_events) ==
    \/ tempo_events = <<>>
    \/ Len(tempo_events) = 1 /\ tempo_events[1].tick = 0

\* The tempo T of such a list.
TempoOf(tempo_events) ==
    IF tempo_events = <<>> THEN DefaultUsPerBeat ELSE tempo_events[1].us_per_beat

\* C23: with one constant tempo T (no tempo event and T = 500000, or one
\* tempo event at tick 0) the seconds of a tick are tick * T over
\* 1000000 * ticks_per_beat: the numerator kept over that denominator is
\* tick * T.
C23_ConstantTempoSeconds ==
    (fn_out # None /\ ConstantTempo(fn_in.tempo_events)) =>
        fn_out[1].seconds = fn_in.tick * TempoOf(fn_in.tempo_events)

\* C23 witness: tick 3 converted under one tempo event at tick 0 of one
\* second per beat.
C23_Witness ==
    /\ fn_out # None
    /\ fn_in.tempo_events = <<[tick |-> 0, us_per_beat |-> 1000000]>>
    /\ fn_in.tick = 3
    /\ fn_out[1].seconds = 3000000

\* C24: the seconds computed at each tempo-change tick from the segment that
\* ends there are the seconds stored at the start of the next segment, and
\* of two ticks the later has the larger seconds.
C24_ContinuousAndIncreasing ==
    fn_out # None =>
        /\ \A i \in 2..Len(fn_out[1].segments) :
              SecondsIn(fn_out[1].segments[i - 1], fn_out[1].segments[i].tick)
                  = fn_out[1].segments[i].seconds_at_tick
        /\ \A a \in QueryTicks : \A b \in QueryTicks :
              a < b => ticks_to_seconds(a, fn_out[1].segments)
                          < ticks_to_seconds(b, fn_out[1].segments)

\* C25: the tempo map built from any list has a segment, its first segment
\* starts at tick 0 with 0 seconds, the start ticks of its segments ascend
\* strictly, and its first segment has the default tempo when the list has
\* no event at tick 0.
C25_TempoMapShape ==
    fn_out # None =>
        /\ fn_out[1].segments # <<>>
        /\ fn_out[1].segments[1].tick = 0
        /\ fn_out[1].segments[1].seconds_at_tick = 0
        /\ \A i \in 2..Len(fn_out[1].segments) :
              fn_out[1].segments[i - 1].tick < fn_out[1].segments[i].tick
        /\ (\A i \in 1..Len(fn_in.tempo_events) : fn_in.tempo_events[i].tick # 0) =>
              fn_out[1].segments[1].us_per_beat = DefaultUsPerBeat

\* C25 witness: the map of two tempo events given out of order, neither at
\* tick 0, has three segments and starts with the default tempo.
C25_Witness ==
    /\ fn_out # None
    /\ Len(fn_in.tempo_events) = 2
    /\ fn_in.tempo_events[1].tick = 2
    /\ fn_in.tempo_events[2].tick = 1
    /\ Len(fn_out[1].segments) = 3
    /\ fn_out[1].segments[1].us_per_beat = DefaultUsPerBeat

\* k is the fraction q rounded to the nearest integer, a fraction halfway
\* between two integers to the larger: q - 1/2 < k <= q + 1/2.
IsRounded(k, q) == 2 * k * q[2] - q[2] <= 2 * q[1] /\ 2 * q[1] < 2 * k * q[2] + q[2]

\* The seconds of a tick of a source times a sample rate, as a fraction.
SamplesAt(smf, sample_rate, segments, tick) ==
    Fraction(ticks_to_seconds(tick, segments), sample_rate,
             MicrosPerSecond * TicksPerBeat(smf))

AllRounded(smf, sample_rate, compiled, segments) ==
    /\ \A i \in 1..Len(compiled.events) :
          IsRounded(compiled.events[i].sample,
                    SamplesAt(smf, sample_rate, segments, compiled.events[i].tick))
    /\ IsRounded(compiled.total_samples,
                 SamplesAt(smf, sample_rate, segments, compiled.ruler_max_tick))

\* One track with NoteOn(key 60) at tick 0 and NoteOff(key 60) at tick 120,
\* 480 ticks per beat, no tempo event, compiled at 48000 samples per second.
NoteRangeExample ==
    [smf |-> [timing |-> [metrical |-> TRUE, ticks |-> 480],
              tracks |-> <<NoteTrack(<<>>, 0, 120)>>],
     sample_rate |-> 48000]

\* C22: the example compiles to two events at samples 0 and 6000 with
\* ruler_max_tick 120 and total_samples 6000; and the sample of every event
\* of every schedule, and its total_samples, is the seconds of the tick
\* times the sample rate rounded to the nearest integer, halves upwards.
C22_SamplesAreRoundedSeconds ==
    fn_out # None =>
        /\ fn_in = NoteRangeExample =>
              fn_out[1] = [events |-> <<[tick |-> 0, sample |-> 0,
                                         event |-> SynthEvent("NoteOn", 0, 60, 100)],
                                        [tick |-> 120, sample |-> 6000,
                                         event |-> SynthEvent("NoteOff", 0, 60, 0)]>>,
                           ruler_max_tick |-> 120,
                           total_samples |-> 6000]
        /\ AllRounded(fn_in.smf, fn_in.sample_rate, fn_out[1],
                      build_tempo_segments(parse_smf(fn_in.smf).tempo_events))

\* C22 witness: the example compiled, its note off at sample 6000.
C22_Witness ==
    /\ fn_out # None
    /\ fn_in = NoteRangeExample
    /\ fn_out[1].events[2].sample = 6000

\* The schedule compiled from the file remembered as loaded.
LoadedSchedule == build_playback_schedule(last_midi_path[1], SampleRate)[1]

\* Every event of the installed schedule has been dispatched.
Exhausted == playback_events # <<>> /\ playback_index = Len(playback_events)

\* C26: a frame rendered while Playing that leaves no event of the schedule
\* to dispatch stores total_samples to next_event_sample and the ruler's end
\* tick to next_event_tick, the frame that dispatches the last event and
\* every later one; while the schedule stays exhausted, Playing or paused,
\* and no reload is under way, the two keep those values, which are those
\* of the loaded file's schedule;
\* and a reload that installs a schedule without events stores the pair
\* when it publishes the schedule.
C26_NextAtEndIsRulerEnd ==
    /\ [][(cb_pc = "frame" /\ cb_pc' = "advance" /\ playback_index' = Len(playback_events)) =>
            /\ next_event_sample' = total_samples
            /\ next_event_tick' = max_tick]_vars
    /\ []((Exhausted /\ pc \notin ReloadFromBurst) =>
            /\ next_event_sample = total_samples
            /\ next_event_tick = max_tick
            /\ total_samples = LoadedSchedule.total_samples
            /\ max_tick = LoadedSchedule.ruler_max_tick)
    /\ [][(pc = "play_publish" /\ CtlStep /\ playback_events = <<>>) =>
            /\ next_event_sample' = schedule.total_samples
            /\ next_event_tick' = schedule.ruler_max_tick
            /\ total_samples' = next_event_sample'
            /\ max_tick' = next_event_tick']_vars

\* C26 witness: a frame after the one that dispatched the last of three
\* events is being rendered, the transport Playing.
C26_Witness ==
    /\ is_playing
    /\ Exhausted
    /\ Len(playback_events) = 3
    /\ cb_pc = "advance"
    /\ samples_played > last_event_sample
    /\ next_event_sample = total_samples
    /\ next_event_tick = max_tick

\* A frame rendered while Playing: the dispatch loop reads the schedule at
\* the dispatch index.
PlayingFrame == cb_pc = "frame" /\ cb_pc' = "advance"

\* The synth after the events at positions from..(to - 1) of a schedule
\* were sent to it in order.
RECURSIVE SentInOrder(_, _, _, _)
SentInOrder(s, events, from, to) ==
    IF from >= to THEN s
    ELSE SentInOrder(SynthSend(s, events[from + 1].event), events, from + 1, to)

\* The statements of a reload from the installation of the new events until
\* samples_played and the dispatch index are both reset.
StaleWindow == {"play_install_held", "play_publish", "play_index", "play_index_held"}

\* C27: no frame is rendered as Playing from a reload's burst until it sets
\* the play flag, so none between its installation of the new events and
\* its resets of samples_played and the dispatch index;
\* a Playing frame sends the synth the events of the installed schedule at
\* the positions from the dispatch index on, and the installed schedule is
\* the one compiled from the file remembered as loaded; and while Playing
\* the dispatch index is at most the length of the installed schedule and
\* every position dispatched is inside it.
C27_ReloadAtomicForDispatch ==
    /\ [][PlayingFrame => ~(should_reload /\ pc \in ReloadFromBurst)]_vars
    /\ []((should_reload /\ pc \in ReloadFromBurst) => ~is_playing)
    /\ [](pc \in StaleWindow => should_reload)
    /\ [][PlayingFrame =>
            /\ playback_events' = playback_events
            /\ playback_events = LoadedSchedule.events
            /\ playback_index <= playback_index'
            /\ playback_index' <= Len(playback_events)
            /\ synth' = SentInOrder(synth, playback_events, playback_index, playback_index')]_vars
    /\ [](is_playing =>
            /\ playback_index <= Len(playback_events)
            /\ \A i \in 1..Len(h_dispatched) : h_dispatched[i] < Len(playback_events))

\* C27 witness: a reload has installed a schedule without events over one
\* that was played to its third event and has not yet reset the dispatch
\* index, and the render callback is in a frame.
C27_Witness ==
    /\ pc = "play_index"
    /\ playback_events = <<>>
    /\ playback_index = 3
    /\ samples_played = 0
    /\ cb_pc = "frame"


\* The mutexes the control thread holds.
CtlHeld == {m \in Mutexes : locks[m] = "ctl"}

\* The mutexes the render callback holds.
CbHeld == {m \in Mutexes : locks[m] = "cb"}

Installed == <<playback_events, total_samples, max_tick>>

\* The command being processed is a Play that reloads and whose file
\* compiles.
SuccessfulReload ==
    /\ cmd.type = "Play"
    /\ should_reload
    /\ FileSchedules[cmd.midi] # None

\* C29: a step that changes the installed events, total_samples or
\* max_tick is the install or the publish of a Play that reloads and whose
\* build succeeded, so no step of the render callback, of Pause, Stop or
\* Rewind, of a Play that resumes in place or of a reload whose build
\* failed changes them; the install replaces the events by the whole
\* sequence compiled from the file, and the publish stores that schedule's
\* total_samples and ruler_max_tick.
C29_OnlyReloadReplacesSchedule ==
    /\ [][Installed' # Installed =>
            /\ SuccessfulReload
            /\ pc \in {"play_install_held", "play_publish"}
            /\ pc' # pc]_vars
    /\ [][playback_events' # playback_events =>
            playback_events' = FileSchedules[cmd.midi][1].events]_vars
    /\ [][(total_samples' # total_samples \/ max_tick' # max_tick) =>
            /\ total_samples' = FileSchedules[cmd.midi][1].total_samples
            /\ max_tick' = FileSchedules[cmd.midi][1].ruler_max_tick]_vars

\* C29 witness: a reload of the file without events has replaced the three
\* events of the file loaded before and published its counters.
C29_Witness ==
    /\ pc = "play_index"
    /\ cmd.midi = "e.mid"
    /\ h_prev_midi = Some("n.mid")
    /\ playback_events = <<>>
    /\ total_samples = 0
    /\ max_tick = 0
    /\ playback_index = 3

\* The messages of a burst as a set.
SentIn(sent) == {sent[i] : i \in DOMAIN sent}

\* Each channel 0..15 gets controller 64 with value 0, controllers 120 and
\* 123 and a note-off for each key 0..127, and no message is for another
\* channel or key.
CoversAll(messages) ==
    /\ \A channel \in 0..15 :
          /\ SynthEvent("ControlChange", channel, 64, 0) \in messages
          /\ SynthEvent("ControlChange", channel, 120, 0) \in messages
          /\ SynthEvent("ControlChange", channel, 123, 0) \in messages
          /\ \A key \in 0..127 : SynthEvent("NoteOff", channel, key, 0) \in messages
    /\ \A ev \in messages : ev.channel \in 0..15 /\ ev.key \in 0..127

\* C30: the burst sends, to each channel 0..15, controller 64 with value
\* 0, controller 120, controller 123 and a note-off for each key 0..127,
\* and nothing to any other channel or key; the synth it was sent to keeps
\* its soundfont and its program, so it is not a new engine; and what the
\* messages leave of the synth is what Pause and a reload, which apply
\* send_all_notes_off, leave of it.
C30_BurstCoversAllChannelsAndKeys ==
    fn_out # None =>
        /\ CoversAll(SentIn(fn_out[1].sent))
        /\ fn_out[1].synth.font = fn_in.font
        /\ fn_out[1].synth.program = fn_in.program
        /\ fn_out[1].synth.notes = {}
        /\ fn_out[1].synth = send_all_notes_off(fn_in)

\* C30 witness: the burst was sent to a synth with a soundfont, a program
\* other than the default and all four notes sounding.
C30_Witness ==
    /\ fn_out # None
    /\ fn_in.font = Some("x.sf2")
    /\ fn_in.program = 5
    /\ fn_in.notes = BurstNotes
    /\ Len(fn_out[1].sent) = 2112
    /\ fn_out[1].synth # SynthDefault

\* The scheduled form, without its sample, of the channel message at place
\* p of a source: its absolute tick, every event before it in its track
\* counted, and its engine event.
MessageAt(smf, p) ==
    [tick |-> TickAt(smf.tracks[p[1]], p[2]),
     event |-> midi_message_to_event(smf.tracks[p[1]][p[2]].channel, smf.tracks[p[1]][p[2]])]

\* A schedule holds each channel message of the source as often as the
\* source does, and nothing else.
OnePerMessage(smf, events) ==
    /\ Len(events) = Cardinality(Encountered(smf))
    /\ \A p \in Encountered(smf) :
          Cardinality({i \in 1..Len(events) :
                          [tick |-> events[i].tick, event |-> events[i].event]
                              = MessageAt(smf, p)})
              = Cardinality({q \in Encountered(smf) : MessageAt(smf, q) = MessageAt(smf, p)})

\* The tempo meta events of a source, each named by its track and place.
TempoPlaces(smf) ==
    UNION {{<<t, i>> : i \in {j \in 1..Len(smf.tracks[t]) : smf.tracks[t][j].kind = "Tempo"}}
           : t \in 1..Len(smf.tracks)}

\* The tempo meta events of a source with their absolute ticks, the tracks
\* in file order and the events of a track in track order.
TempoInFileOrder(smf) ==
    [n \in 1..Cardinality(TempoPlaces(smf)) |->
        LET p == CHOOSE q \in TempoPlaces(smf) :
                    Cardinality({r \in TempoPlaces(smf) : LexLess(r, q)}) = n - 1
        IN [tick |-> TickAt(smf.tracks[p[1]], p[2]),
            us_per_beat |-> smf.tracks[p[1]][p[2]].us]]

\* C31: the compiled schedule holds one event per channel message of the
\* source, all tracks together, each at the absolute tick that counts the
\* deltas of the meta events before it too, and no event for a meta event;
\* and the tempo list parse_smf collects is the source's tempo events with
\* their absolute ticks.
C31_OneEventPerChannelMessage ==
    fn_out # None =>
        /\ OnePerMessage(fn_in, fn_out[1].events)
        /\ \A i \in 1..Len(fn_out[1].events) :
              fn_out[1].events[i].event.type \notin {"Tempo", "TrackName"}
        /\ parse_smf(fn_in).tempo_events = TempoInFileOrder(fn_in)

\* C31 witness: a track of two tempo events and a note on, a tick apart
\* each: one event is scheduled, at tick 3, and the tempo events are
\* collected at ticks 1 and 2.
C31_Witness ==
    /\ fn_out # None
    /\ Len(fn_in.tracks[1]) = 3
    /\ \A i \in 1..2 : fn_in.tracks[1][i].kind = "Tempo" /\ fn_in.tracks[1][i].delta = 1
    /\ fn_in.tracks[1][3].kind = "NoteOn" /\ fn_in.tracks[1][3].delta = 1
    /\ Len(fn_out[1].events) = 1
    /\ fn_out[1].events[1].tick = 3
    /\ Len(parse_smf(fn_in).tempo_events) = 2
    /\ parse_smf(fn_in).tempo_events[2].tick = 2

\* The place in a tempo list of the last event at a tick.
LastAt(tempo_events, tick) ==
    SetMax({i \in 1..Len(tempo_events) : tempo_events[i].tick = tick})

\* The segments of a tempo map that start at a tick.
SegmentsAt(segments, tick) == {i \in 1..Len(segments) : segments[i].tick = tick}

\* C32: for each tick at which the tempo list has an event, tick 0
\* included, the tempo map has one segment starting there and its tempo is
\* that of the last event of the list at that tick.
C32_LastTempoAtTickWins ==
    fn_out # None =>
        \A n \in 1..Len(fn_in.tempo_events) :
            /\ Cardinality(SegmentsAt(fn_out[1].segments, fn_in.tempo_events[n].tick)) = 1
            /\ \A i \in SegmentsAt(fn_out[1].segments, fn_in.tempo_events[n].tick) :
                  fn_out[1].segments[i].us_per_beat
                      = fn_in.tempo_events[LastAt(fn_in.tempo_events,
                                                  fn_in.tempo_events[n].tick)].us_per_beat

\* C32 witness: two tempo events at tick 0, a quarter of a second and then
\* one second per beat: the map is the seed segment with one second per beat.
C32_Witness ==
    /\ fn_out # None
    /\ fn_in.tempo_events = <<[tick |-> 0, us_per_beat |-> 250000],
                              [tick |-> 0, us_per_beat |-> 1000000]>>
    /\ Len(fn_out[1].segments) = 1
    /\ fn_out[1].segments[1].us_per_beat = 1000000

\* How many events of the installed schedule are due before the cursor.
DueBefore ==
    Cardinality({i \in 1..Len(playback_events) : playback_events[i].sample < samples_played})

\* C33: while the play flag is true, between two render callbacks the
\* dispatch index is the number of scheduled events whose sample is smaller
\* than samples_played, and each event a Playing frame sends to the synth
\* has the sample samples_played has in that frame.
C33_DispatchSampleAccurate ==
    /\ []((cb_pc = "idle" /\ is_playing) => playback_index = DueBefore)
    /\ [][PlayingFrame =>
            \A i \in (playback_index + 1)..playback_index' :
                playback_events[i].sample = samples_played]_vars

\* The statements of Rewind after samples_played and the dispatch index
\* are both reset, until hard_reset_synth has replaced the synth.
AfterRewindResets == {"rewind_reset", "rewind_reset_held"}

\* C34: while a Rewind is past its resets of samples_played and of the
\* dispatch index and has not finished its reset of the synth, a Playing
\* frame sends no scheduled event; so when the synth is replaced no
\* position was dispatched since the index was reset.
C34_NoDispatchBeforeSynthReset ==
    /\ [][(pc \in AfterRewindResets /\ PlayingFrame) =>
            playback_index' = playback_index]_vars
    /\ [](pc = "rewind_reset_held" => h_dispatched = <<>>)

\* C35: a step that changes the play flag is a step of the control thread
\* in a Play, Pause or Stop, never one of the render callback; a frame
\* rendered while Playing adds one to samples_played whatever total_samples
\* is; and a callback in a buffer while Playing renders such a frame, also
\* with the schedule exhausted and the cursor at or past total_samples (up
\* to the model's bound on the cursor).
C35_OnlyCommandsWriteFlag ==
    /\ [][is_playing' # is_playing =>
            /\ cmd.type \in {"Play", "Pause", "Stop"}
            /\ pc' # pc
            /\ cb_pc' = cb_pc]_vars
    /\ [][(cb_pc = "advance" /\ cb_pc' = "frame") =>
            /\ is_playing
            /\ samples_played' = samples_played + 1]_vars
    /\ []((cb_pc = "frame" /\ is_playing /\ samples_played < MaxSamples) =>
            ENABLED CbFrameDispatch)

\* C35 witness: the schedule is exhausted, the cursor is past total_samples
\* and the callback has just rendered a frame while Playing.
C35_Witness ==
    /\ is_playing
    /\ Exhausted
    /\ samples_played > total_samples + 1
    /\ cb_pc = "frame"
    /\ data = "samples"

\* What current_tick returns between two render callbacks.
TickRead == current_tick(Telemetry)

\* What current_tick returns once the frame being rendered has added one to
\* samples_played.
TickReadAfterFrame == current_tick([Telemetry EXCEPT !.samples = samples_played + 1])

\* C36: with the transport Playing and the control thread waiting for a
\* command, what current_tick returns after a rendered frame is not smaller
\* than what it returned before the frame.
C36_CurrentTickNeverDecreases ==
    [][(PlayingFrame /\ pc = "recv" /\ TickRead # None) =>
            TickRead[1] <= TickReadAfterFrame'[1]]_vars

\* C37: along the events of a compiled schedule the ticks never decrease.
C37_TicksNonDecreasing ==
    fn_out # None =>
        \A i \in 1..(Len(fn_out[1].events) - 1) :
            fn_out[1].events[i].tick <= fn_out[1].events[i + 1].tick

\* C37 witness: the first track has a note off at tick 1 and a program
\* change at tick 2, the second a note on at tick 1, all compiled to sample
\* 1: the schedule has the note on before the program change.
C37_Witness ==
    /\ fn_out # None
    /\ Len(fn_in.tracks[1]) = 2
    /\ fn_in.tracks[1][1].kind = "NoteOff" /\ fn_in.tracks[1][1].delta = 1
    /\ fn_in.tracks[1][2].kind = "ProgramChange" /\ fn_in.tracks[1][2].delta = 1
    /\ Len(fn_in.tracks[2]) = 1
    /\ fn_in.tracks[2][1].kind = "NoteOn" /\ fn_in.tracks[2][1].delta = 1
    /\ Len(fn_out[1].events) = 3
    /\ fn_out[1].events[2].tick = 1 /\ fn_out[1].events[2].event.type = "NoteOn"
    /\ fn_out[1].events[3].tick = 2 /\ fn_out[1].events[3].event.type = "ProgramChange"
    /\ fn_out[1].events[2].sample = fn_out[1].events[3].sample

\* C38: every event of a compiled schedule has a tick of at most the
\* schedule's ruler_max_tick and a sample of at most its total_samples.
C38_EventsWithinTimeline ==
    fn_out # None =>
        \A i \in 1..Len(fn_out[1].events) :
            /\ fn_out[1].events[i].tick <= fn_out[1].ruler_max_tick
            /\ fn_out[1].events[i].sample <= fn_out[1].total_samples

\* C39: once the control thread has processed every command the UI has
\* sent, the UI's PlaybackStatus is Playing exactly when the engine's play
\* flag is true.
AllProcessed == pc = "recv" /\ cmd_rx = <<>>

C39_UiStatusAgreesWithEngine ==
    AllProcessed => (playback_status = "Playing" <=> is_playing)

====
